---------------------------- MODULE Spec2Model ----------------------------
(***************************************************************************)
(* A model of github.com/dreadl0ck/maltego: the message envelope           *)
(* (Transform), its entities, the escaping utility and the HTTP handler    *)
(* wrapper, with the wire text produced by encoding/xml.                   *)
(*                                                                         *)
(* A Go string is a sequence of tokens.  A token is one character ("&",    *)
(* "<", "\n", "a", ...) or a word: a run of characters that are neither    *)
(* markup nor escaped by XML ("100", "Inform", "Value", ...).  The wire    *)
(* text is such a sequence too, so a "<" written by a user value is the    *)
(* very token that opens a tag.                                            *)
(***************************************************************************)
EXTENDS Integers, Sequences, FiniteSets, TLC

VARIABLES
    escapeIn,   \* EscapeText: the argument text
    escapeOut,  \* EscapeText: the returned text, as Ref(text) (Nil before the call)
    tr,         \* the Transform envelope the helpers act on
    heap,       \* the Entity objects allocated so far; a *Entity is an index
    ret,        \* the value returned by the last operation (RetNone: none)
    last,       \* the last operation: its name and the handle it acted on
    calls,      \* the arguments of the calls made on tr since it was created
    pc,         \* "local": a Transform{} used by a local transform; "listening",
                \* "handler", "returned", "responded": the closure of
                \* MakeHandler before a request, inside the user's handler,
                \* back from a handler that gave up, at its end;
                \* "panicked": the goroutine died; "exited": log.Fatal ended
                \* the process
    http,       \* the HTTP exchange: response status and body written
    wire,       \* the wire text given to xml.Unmarshal by a caller of the package
    args,       \* ParseLocalArguments: the argument list
    lt,         \* ParseLocalArguments: the LocalTransform returned, as Ref(lt)
    stdout,     \* the text printed on the standard output so far
    exitCode,   \* the code os.Exit was called with, as Ref(code) (Nil: running)
    transforms, \* handler.go: the package variable transforms, the route names
    util        \* a call of a utility function: its name, arguments and result

vars ==
    <<escapeIn, escapeOut, tr, heap, ret, last, calls, pc, http, wire, args, lt,
      stdout, exitCode, transforms, util>>

\* A Go pointer is Nil or Ref(x), the one-element sequence holding its target.
Nil == <<>>
Ref(x) == <<x>>

(***************************************************************************)
(* Bounds of the model.                                                    *)
(***************************************************************************)
MaxParts == 3   \* pieces concatenated into an EscapeText argument
MaxCalls == 3   \* calls that add an entity, a property, a message or an exception
MaxRootChildren == 2  \* children of the MaltegoMessage root of a decoded text
MaxArgParts == 3      \* pieces of the arguments after the first, taken together

(***************************************************************************)
(* Sequence helpers.                                                       *)
(***************************************************************************)
RECURSIVE FlattenFrom(_, _)
FlattenFrom(ss, i) == IF i > Len(ss) THEN <<>> ELSE ss[i] \o FlattenFrom(ss, i + 1)

\* The concatenation of a sequence of sequences.
Flatten(ss) == FlattenFrom(ss, 1)

HasPrefixAt(s, i, p) ==
    /\ i + Len(p) - 1 <= Len(s)
    /\ \A k \in 1..Len(p) : s[i + k - 1] = p[k]

\* The first index >= i where s holds a token of set, or Len(s) + 1.
NextIn(s, i, set) ==
    LET hits == {k \in i..Len(s) : s[k] \in set}
    IN  IF hits = {} THEN Len(s) + 1 ELSE CHOOSE k \in hits : \A j \in hits : k <= j

\* The first index >= i where p occurs in s, or 0.
FindFrom(s, i, p) ==
    LET hits == {k \in i..Len(s) : HasPrefixAt(s, k, p)}
    IN  IF hits = {} THEN 0 ELSE CHOOSE k \in hits : \A j \in hits : k <= j

Contains(s, p) == \E i \in 1..Len(s) : HasPrefixAt(s, i, p)

Count(s, c) == Cardinality({i \in 1..Len(s) : s[i] = c})

(***************************************************************************)
(* encoding/xml's EscapeText, as called by EscapeText and by Marshal for   *)
(* every attribute value and every character-data string.                  *)
(***************************************************************************)
escNL == <<"&", "#", "x", "A", ";">>

\* An escaping that changes no character.
XmlEscapeChar_Identity(c) == <<c>>

XmlEscapeChar(c) ==
    CASE c = "\"" -> <<"&", "#", "3", "4", ";">>
      [] c = "'"  -> <<"&", "#", "3", "9", ";">>
      [] c = "&"  -> <<"&", "a", "m", "p", ";">>
      [] c = "<"  -> <<"&", "l", "t", ";">>
      [] c = ">"  -> <<"&", "g", "t", ";">>
      [] c = "\t" -> <<"&", "#", "x", "9", ";">>
      [] c = "\n" -> escNL
      [] c = "\r" -> <<"&", "#", "x", "D", ";">>
      [] OTHER    -> <<c>>

XmlEscapeText(s) == Flatten([i \in 1..Len(s) |-> XmlEscapeChar(s[i])])

(***************************************************************************)
(* strings.NewReplacer(old, new).Replace(s) for one pair: the leftmost     *)
(* occurrences of old, not overlapping, left to right.                     *)
(***************************************************************************)
RECURSIVE ReplaceFrom(_, _, _, _)
ReplaceFrom(s, i, old, new) ==
    LET k == FindFrom(s, i, old)
    IN  IF k = 0 THEN SubSeq(s, i, Len(s))
        ELSE SubSeq(s, i, k - 1) \o new \o ReplaceFrom(s, k + Len(old), old, new)

newlineReplacer(s) == ReplaceFrom(s, 1, escNL, <<"\n">>)

\* The same two steps in the other order: the replacer runs on the raw text.
EscapeText_ReplaceFirst(text) == XmlEscapeText(newlineReplacer(text))

EscapeText(text) == newlineReplacer(XmlEscapeText(text))


(***************************************************************************)
(* xml.Marshal of the envelope.  Struct fields are written in declaration  *)
(* order, attributes first; a nil pointer writes nothing; a struct value   *)
(* (Entities, UIMessages, Limits, ...) always writes its element; a string *)
(* element writes an empty element unless it is tagged omitempty.          *)
(***************************************************************************)
\* A rendering that copies strings into the text as they are.
MarshalText_Raw(s) == s

\* The escaping Marshal applies to each attribute value and text.
MarshalText(s) == XmlEscapeText(s)

Attr(name, value) == <<" ", name, "=", "\"">> \o MarshalText(value) \o <<"\"">>

Elem(name, attrs, body) ==
    <<"<", name>> \o attrs \o <<">">> \o body \o <<"<", "/", name, ">">>

cdataStart == <<"<", "!", "[", "CDATA", "[">>
cdataEnd == <<"]", "]", ">">>
cdataEscape == <<"]", "]", "]", "]", ">">> \o cdataStart \o <<">">>

emitCDATA(s) ==
    IF s = <<>> THEN <<>>
    ELSE cdataStart \o ReplaceFrom(s, 1, cdataEnd, cdataEscape) \o cdataEnd

MarshalField(f) ==
    Elem("Field",
         Attr("MatchingRule", f.MatchingRule) \o Attr("Name", f.Name)
             \o Attr("DisplayName", f.DisplayName),
         MarshalText(f.Text))

MarshalLabel(l) ==
    Elem("Label", Attr("Name", l.Name) \o Attr("Type", l.Type), emitCDATA(l.Text))

\* A string field without omitempty, left out when empty all the same.
StringElem_OmitEmpty(name, s) == IF s = <<>> THEN <<>> ELSE Elem(name, <<>>, MarshalText(s))

\* A string field without omitempty: its element is written even when empty.
StringElem(name, s) == Elem(name, <<>>, MarshalText(s))

MarshalEntity(e) ==
    Elem("Entity", Attr("Type", e.Type),
         (IF e.Genealogy = Nil THEN <<>>
          ELSE Elem("Genealogy", <<>>,
                    Elem("Type", Attr("Name", e.Genealogy[1].Name)
                                     \o Attr("OldName", e.Genealogy[1].OldName), <<>>)))
         \o StringElem("Value", e.Value)
         \o StringElem("Weight", e.Weight)
         \o (IF e.Info = Nil THEN <<>>
             ELSE Elem("DisplayInformation", <<>>,
                       Flatten([i \in 1..Len(e.Info[1]) |->
                                    MarshalLabel(e.Info[1][i])])))
         \o (IF e.IconURL = <<>> THEN <<>>
             ELSE Elem("IconURL", <<>>, MarshalText(e.IconURL)))
         \o (IF e.Fields = Nil THEN <<>>
             ELSE Elem("AdditionalFields", <<>>,
                       Flatten([i \in 1..Len(e.Fields[1]) |->
                                    MarshalField(e.Fields[1][i])]))))

MarshalEntities(items, hp) ==
    Elem("Entities", <<>>,
         Flatten([i \in 1..Len(items) |-> MarshalEntity(hp[items[i]])]))

MarshalUIMessage(m) ==
    Elem("UIMessage", Attr("MessageType", m.MessageType), MarshalText(m.Text))

MarshalException(x) == Elem("Exception", Attr("code", x.Code), MarshalText(x.Text))

MarshalTransformField(f) == Elem("Field", Attr("Name", f.Name), MarshalText(f.Text))

MarshalResponse(m, hp) ==
    Elem("MaltegoTransformResponseMessage", <<>>,
         MarshalEntities(m.Entities, hp)
         \o Elem("UIMessages", <<>>,
                 Flatten([i \in 1..Len(m.UIMessages) |->
                              MarshalUIMessage(m.UIMessages[i])])))

MarshalExceptionMessage(m) ==
    Elem("MaltegoTransformExceptionMessage", <<>>,
         Elem("Exceptions", <<>>,
              Flatten([i \in 1..Len(m.Exceptions) |->
                           MarshalException(m.Exceptions[i])])))

MarshalRequest(m, hp) ==
    Elem("MaltegoTransformRequestMessage", <<>>,
         MarshalEntities(m.Entities, hp)
         \o Elem("Limits", Attr("HardLimit", m.Limits.HardLimit)
                               \o Attr("SoftLimit", m.Limits.SoftLimit), <<>>)
         \o Elem("TransformFields", <<>>,
                 Flatten([i \in 1..Len(m.TransformFields) |->
                              MarshalTransformField(m.TransformFields[i])])))

Marshal(t, hp) ==
    Elem("MaltegoMessage", <<>>,
         (IF t.ResponseMessage = Nil THEN <<>>
          ELSE MarshalResponse(t.ResponseMessage[1], hp))
         \o (IF t.ExceptionMessage = Nil THEN <<>>
             ELSE MarshalExceptionMessage(t.ExceptionMessage[1]))
         \o (IF t.RequestMessage = Nil THEN <<>>
             ELSE MarshalRequest(t.RequestMessage[1], hp)))

(***************************************************************************)
(* encoding/xml's Decoder on a wire text: the element tree, or a syntax    *)
(* error (an unescaped "<", an unknown entity, a missing or wrong end tag).*)
(* A node is [name, attrs, kids, text]: text is the character data         *)
(* directly inside the element, entities and CDATA sections resolved.      *)
(***************************************************************************)
Names ==
    {"MaltegoMessage", "MaltegoTransformResponseMessage",
     "MaltegoTransformExceptionMessage", "MaltegoTransformRequestMessage",
     "Entities", "Entity", "Type", "Genealogy", "Name", "OldName", "Value",
     "Weight", "DisplayInformation", "Label", "IconURL", "AdditionalFields",
     "Field", "MatchingRule", "DisplayName", "UIMessages", "UIMessage",
     "MessageType", "Exceptions", "Exception", "code", "Limits", "SoftLimit",
     "HardLimit", "TransformFields", "Unknown"}

EntityTable ==
    << <<<<"&", "a", "m", "p", ";">>, "&">>,
       <<<<"&", "l", "t", ";">>, "<">>,
       <<<<"&", "g", "t", ";">>, ">">>,
       <<<<"&", "#", "3", "4", ";">>, "\"">>,
       <<<<"&", "#", "3", "9", ";">>, "'">>,
       <<<<"&", "#", "x", "9", ";">>, "\t">>,
       <<<<"&", "#", "x", "A", ";">>, "\n">>,
       <<<<"&", "#", "x", "D", ";">>, "\r">> >>

Fail == [ok |-> FALSE, next |-> 0]

EntityHit(i, hits) ==
    IF hits = {} THEN Fail
    ELSE [ok |-> TRUE, ch |-> EntityTable[CHOOSE k \in hits : TRUE][2],
          next |-> i + Len(EntityTable[CHOOSE k \in hits : TRUE][1])]

\* The character the entity at s[i] stands for.
DecodeEntity(s, i) ==
    EntityHit(i, {k \in 1..Len(EntityTable) : HasPrefixAt(s, i, EntityTable[k][1])})

RECURSIVE ParseAttrValue(_, _, _)
RECURSIVE AttrValueEntity(_, _, _)
RECURSIVE AttrValueTo(_, _, _, _)

AttrValueEntity(s, d, run) ==
    IF d.ok THEN ParseAttrValue(s, d.next, Append(run, d.ch)) ELSE Fail

\* k: the end of the run of plain characters that starts at i.
AttrValueTo(s, i, k, acc) ==
    IF k > Len(s) \/ s[k] = "<" THEN Fail
    ELSE IF s[k] = "\""
    THEN [ok |-> TRUE, value |-> acc \o SubSeq(s, i, k - 1), next |-> k + 1]
    ELSE AttrValueEntity(s, DecodeEntity(s, k), acc \o SubSeq(s, i, k - 1))

\* A quoted attribute value from s[i] to its closing quote.
ParseAttrValue(s, i, acc) == AttrValueTo(s, i, NextIn(s, i, {"<", "\"", "&"}), acc)

RECURSIVE ParseAttrs(_, _, _)
RECURSIVE AttrsWith(_, _, _, _)

AttrsWith(s, name, v, acc) ==
    IF v.ok THEN ParseAttrs(s, v.next, Append(acc, [name |-> name, value |-> v.value]))
    ELSE Fail

\* The attributes of a start tag, from s[i] on.
ParseAttrs(s, i, acc) ==
    IF i + 3 <= Len(s) /\ s[i] = " " /\ s[i + 1] \in Names
       /\ s[i + 2] = "=" /\ s[i + 3] = "\""
    THEN AttrsWith(s, s[i + 1], ParseAttrValue(s, i + 4, <<>>), acc)
    ELSE [ok |-> TRUE, attrs |-> acc, next |-> i]

Node(name, attrs, kids, text) ==
    [name |-> name, attrs |-> attrs, kids |-> kids, text |-> text]

RECURSIVE ParseElem(_, _)
RECURSIVE ElemBody(_, _, _)
RECURSIVE ElemEnd(_, _, _, _)
RECURSIVE ParseContent(_, _, _, _)
RECURSIVE ContentAt(_, _, _, _)
RECURSIVE ContentEntity(_, _, _, _)
RECURSIVE ContentCDATA(_, _, _, _, _)
RECURSIVE ContentChild(_, _, _, _)

ContentEntity(s, d, kids, text) ==
    IF d.ok THEN ParseContent(s, d.next, kids, Append(text, d.ch)) ELSE Fail

\* j: the end of the CDATA section that starts at s[i].
ContentCDATA(s, i, j, kids, text) ==
    IF j = 0 THEN Fail
    ELSE ParseContent(s, j + Len(cdataEnd), kids,
                      text \o SubSeq(s, i + Len(cdataStart), j - 1))

ContentChild(s, c, kids, text) ==
    IF c.ok THEN ParseContent(s, c.next, Append(kids, c.node), text) ELSE Fail

\* s[i] is the "<" or "&" that ends a run of character data.
ContentAt(s, i, kids, text) ==
    IF i > Len(s) THEN Fail
    ELSE IF s[i] = "&" THEN ContentEntity(s, DecodeEntity(s, i), kids, text)
    ELSE IF i + 1 <= Len(s) /\ s[i + 1] = "/"
    THEN [ok |-> TRUE, kids |-> kids, text |-> text, next |-> i]
    ELSE IF HasPrefixAt(s, i, cdataStart)
    THEN ContentCDATA(s, i, FindFrom(s, i + Len(cdataStart), cdataEnd), kids, text)
    ELSE ContentChild(s, ParseElem(s, i), kids, text)

\* The content of an element from s[i] to the "<" of its end tag.
ParseContent(s, i, kids, text) ==
    ContentAt(s, NextIn(s, i, {"<", "&"}), kids,
              text \o SubSeq(s, i, NextIn(s, i, {"<", "&"}) - 1))

ElemEnd(s, name, attrs, c) ==
    IF c.ok /\ HasPrefixAt(s, c.next, <<"<", "/", name, ">">>)
    THEN [ok |-> TRUE, next |-> c.next + 4, node |-> Node(name, attrs, c.kids, c.text)]
    ELSE Fail

ElemBody(s, name, a) ==
    IF ~a.ok THEN Fail
    ELSE IF HasPrefixAt(s, a.next, <<"/", ">">>)
    THEN [ok |-> TRUE, next |-> a.next + 2, node |-> Node(name, a.attrs, <<>>, <<>>)]
    ELSE IF ~HasPrefixAt(s, a.next, <<">">>) THEN Fail
    ELSE ElemEnd(s, name, a.attrs, ParseContent(s, a.next + 1, <<>>, <<>>))

\* The element whose start tag opens at s[i].
ParseElem(s, i) ==
    IF ~(i + 1 <= Len(s) /\ s[i] = "<" /\ s[i + 1] \in Names) THEN Fail
    ELSE ElemBody(s, s[i + 1], ParseAttrs(s, i + 2, <<>>))

RECURSIVE ParseDocument(_, _)
RECURSIVE DocumentAt(_, _)
RECURSIVE DocumentEntity(_, _)

DocumentEntity(s, d) == IF d.ok THEN ParseDocument(s, d.next) ELSE Fail

DocumentAt(s, i) ==
    IF i > Len(s) THEN Fail
    ELSE IF s[i] = "<" THEN ParseElem(s, i)
    ELSE DocumentEntity(s, DecodeEntity(s, i))

\* Decoder.Decode: the first element of the text; text before it is skipped.
ParseDocument(s, i) == DocumentAt(s, NextIn(s, i, {"<", "&"}))

(***************************************************************************)
(* xml.Unmarshal into the structs of transform.go and transformEntity.go.  *)
(* A child element is matched to a field by its name and skipped when no   *)
(* field has it.  A pointer field is allocated by its first element and    *)
(* reused by a repeated one; a slice gets one item per element; a string   *)
(* keeps the text of the last element; an attribute keeps its last value.  *)
(***************************************************************************)
SelectKids(node, name) == SelectSeq(node.kids, LAMBDA k : k.name = name)

\* The children called name of all the nodes, in document order.
Kids(nodes, name) == Flatten([i \in 1..Len(nodes) |-> SelectKids(nodes[i], name)])

LastAttr(all, hits) ==
    IF hits = {} THEN <<>> ELSE all[CHOOSE k \in hits : \A j \in hits : j <= k].value

AttrNamed(all, name) == LastAttr(all, {k \in 1..Len(all) : all[k].name = name})

\* The value of the last attribute called name on the nodes ("" when none).
AttrOf(nodes, name) == AttrNamed(Flatten([i \in 1..Len(nodes) |-> nodes[i].attrs]), name)

LastText(nodes) == IF nodes = <<>> THEN <<>> ELSE nodes[Len(nodes)].text

UnmarshalField(n) ==
    [Text |-> n.text, MatchingRule |-> AttrOf(<<n>>, "MatchingRule"),
     Name |-> AttrOf(<<n>>, "Name"), DisplayName |-> AttrOf(<<n>>, "DisplayName")]

UnmarshalLabel(n) ==
    [Text |-> n.text, Name |-> AttrOf(<<n>>, "Name"), Type |-> AttrOf(<<n>>, "Type")]

UnmarshalGenealogy(gen) ==
    IF gen = <<>> THEN Nil
    ELSE Ref([Name |-> AttrOf(Kids(gen, "Type"), "Name"),
              OldName |-> AttrOf(Kids(gen, "Type"), "OldName")])

UnmarshalLabels(info, labels) ==
    IF info = <<>> THEN Nil
    ELSE Ref([i \in 1..Len(labels) |-> UnmarshalLabel(labels[i])])

UnmarshalFields(flds, items) ==
    IF flds = <<>> THEN Nil
    ELSE Ref([i \in 1..Len(items) |-> UnmarshalField(items[i])])

UnmarshalEntity(n) ==
    [Type |-> AttrOf(<<n>>, "Type"),
     Genealogy |-> UnmarshalGenealogy(SelectKids(n, "Genealogy")),
     Value |-> LastText(SelectKids(n, "Value")),
     Weight |-> LastText(SelectKids(n, "Weight")),
     Info |-> UnmarshalLabels(SelectKids(n, "DisplayInformation"),
                              Kids(SelectKids(n, "DisplayInformation"), "Label")),
     IconURL |-> LastText(SelectKids(n, "IconURL")),
     Fields |-> UnmarshalFields(SelectKids(n, "AdditionalFields"),
                                Kids(SelectKids(n, "AdditionalFields"), "Field"))]

\* The Entity elements taken last to first.
EntityItems_Reversed(es) == [i \in 1..Len(es) |-> UnmarshalEntity(es[Len(es) + 1 - i])]

EntityItems(es) == [i \in 1..Len(es) |-> UnmarshalEntity(es[i])]

\* The entities of the Entities children of the nodes, as Entity values.
UnmarshalEntities(nodes) == EntityItems(Kids(Kids(nodes, "Entities"), "Entity"))

UIMessageItems(ms) ==
    [i \in 1..Len(ms) |->
        [Text |-> ms[i].text, MessageType |-> AttrOf(<<ms[i]>>, "MessageType")]]

UnmarshalResponse(nodes) ==
    [Entities |-> UnmarshalEntities(nodes),
     UIMessages |-> UIMessageItems(Kids(Kids(nodes, "UIMessages"), "UIMessage"))]

ExceptionItems(xs) ==
    [i \in 1..Len(xs) |-> [Text |-> xs[i].text, Code |-> AttrOf(<<xs[i]>>, "code")]]

UnmarshalExceptionMessage(nodes) ==
    [Exceptions |-> ExceptionItems(Kids(Kids(nodes, "Exceptions"), "Exception"))]

TransformFieldItems(fs) ==
    [i \in 1..Len(fs) |-> [Text |-> fs[i].text, Name |-> AttrOf(<<fs[i]>>, "Name")]]

UnmarshalRequest(nodes) ==
    [Entities |-> UnmarshalEntities(nodes),
     Limits |-> [HardLimit |-> AttrOf(Kids(nodes, "Limits"), "HardLimit"),
                 SoftLimit |-> AttrOf(Kids(nodes, "Limits"), "SoftLimit")],
     TransformFields |->
         TransformFieldItems(Kids(Kids(nodes, "TransformFields"), "Field"))]

(***************************************************************************)
(* xml.Unmarshal(body, &Transform{}): ok is FALSE when it returns an       *)
(* error.  The entities of the result are held by value; Load puts them    *)
(* on the heap.                                                            *)
(***************************************************************************)
UnmarshalPayloads(resp, exc, req) ==
    [ok |-> TRUE,
     ResponseMessage |-> IF resp = <<>> THEN Nil ELSE Ref(UnmarshalResponse(resp)),
     ExceptionMessage |-> IF exc = <<>> THEN Nil ELSE Ref(UnmarshalExceptionMessage(exc)),
     RequestMessage |-> IF req = <<>> THEN Nil ELSE Ref(UnmarshalRequest(req))]

UnmarshalRoot(d) ==
    IF ~d.ok \/ d.node.name # "MaltegoMessage" THEN [ok |-> FALSE]
    ELSE UnmarshalPayloads(SelectKids(d.node, "MaltegoTransformResponseMessage"),
                           SelectKids(d.node, "MaltegoTransformExceptionMessage"),
                           SelectKids(d.node, "MaltegoTransformRequestMessage"))

Unmarshal(body) == UnmarshalRoot(ParseDocument(body, 1))

(***************************************************************************)
(* The state.                                                              *)
(***************************************************************************)
EmptyTransform == [ResponseMessage |-> Nil, ExceptionMessage |-> Nil, RequestMessage |-> Nil]

\* n counts the calls of the user's code that add something, and "at" is the
\* rank of a call among them; ThrowExceptions tells whether ThrowExceptions
\* was called.
NoCalls ==
    [entity |-> <<>>, AddEntity |-> <<>>, AddUIMessage |-> <<>>, AddException |-> <<>>,
     AddDisplayInformation |-> <<>>, SetIconURL |-> <<>>, ThrowExceptions |-> FALSE,
     n |-> 0]

\* Return values: nothing, a wire text, a *Entity, a string, or a panic.
RetNone == [kind |-> "none", text |-> <<>>, h |-> 0]
RetText(s) == [kind |-> "text", text |-> s, h |-> 0]
RetString(s) == [kind |-> "string", text |-> s, h |-> 0]
RetHandle(h) == [kind |-> "handle", text |-> <<>>, h |-> h]
RetPanic == [kind |-> "panic", text |-> <<>>, h |-> 0]
RetError == [kind |-> "error", text |-> <<>>, h |-> 0]

\* No utility function called.
NoUtil == [op |-> "none", in |-> <<>>, out |-> <<>>]

NoExchange == [status |-> 0, body |-> <<>>, handlerRuns |-> 0]

Op(name, h) == [op |-> name, h |-> h]

\* The user's code holds tr and calls its helpers: a local transform, or the
\* callback MakeHandler invokes.
UserRuns == pc \in {"local", "handler"}

(***************************************************************************)
(* transformEntity.go                                                      *)
(***************************************************************************)
NewEntityValue(typ, value, weight) ==
    [Type |-> typ, Genealogy |-> Nil, Value |-> value, Weight |-> weight,
     Info |-> Nil, IconURL |-> <<>>, Fields |-> Nil]

NewEntity(typ, value, weight) ==
    /\ UserRuns
    /\ calls.n < MaxCalls
    /\ heap' = Append(heap, NewEntityValue(typ, value, weight))
    /\ calls' = [calls EXCEPT !.entity =
                    Append(@, [via |-> "NewEntity", typ |-> typ, value |-> value,
                               props |-> <<>>, at |-> calls.n + 1]),
                              !.n = @ + 1]
    /\ ret' = RetHandle(Len(heap) + 1)
    /\ last' = Op("NewEntity", Len(heap) + 1)
    /\ UNCHANGED <<stdout, exitCode, transforms, util, wire, args, lt, escapeIn, escapeOut, tr, pc, http>>

PropertyField(fieldName, displayName, matchingRule, value) ==
    [Text |-> EscapeText(value), MatchingRule |-> matchingRule, Name |-> fieldName,
     DisplayName |-> displayName]

\* An append that replaces the field of the same name, if there is one.
AppendField_Dedup(e, f) ==
    IF e.Fields # Nil /\ \E i \in 1..Len(e.Fields[1]) : e.Fields[1][i].Name = f.Name
    THEN [e EXCEPT !.Fields =
             Ref([i \in 1..Len(@[1]) |-> IF @[1][i].Name = f.Name THEN f ELSE @[1][i]])]
    ELSE [e EXCEPT !.Fields = Ref((IF @ = Nil THEN <<>> ELSE @[1]) \o <<f>>)]

\* The entity after "if tre.Fields == nil { ... }" and the append.
AppendField(e, f) ==
    [e EXCEPT !.Fields = Ref((IF @ = Nil THEN <<>> ELSE @[1]) \o <<f>>)]

\* A call that appends the field f, built from value; caller is the method
\* the user's code called.
AppendCall(caller, h, f, value) ==
    /\ UserRuns
    /\ h \in 1..Len(heap)
    /\ calls.n < MaxCalls
    /\ heap' = [heap EXCEPT ![h] = AppendField(@, f)]
    /\ calls' = [calls EXCEPT !.entity[h].props =
                    Append(@, [name |-> f.Name, value |-> value]),
                              !.n = @ + 1]
    /\ ret' = RetNone
    /\ last' = caller
    /\ UNCHANGED <<stdout, exitCode, transforms, util, wire, args, lt, escapeIn, escapeOut, tr, pc, http>>

\* The body of AddProperty, run for the method the user's code called.
AddPropertyFrom(caller, h, fieldName, displayName, matchingRule, value) ==
    AppendCall(caller, h, PropertyField(fieldName, displayName, matchingRule, value), value)

AddProperty(h, fieldName, displayName, matchingRule, value) ==
    AddPropertyFrom(Op("AddProperty", h), h, fieldName, displayName, matchingRule, value)

\* The letters and digits of ASCII.
Lower ==
    <<"a", "b", "c", "d", "e", "f", "g", "h", "i", "j", "k", "l", "m",
      "n", "o", "p", "q", "r", "s", "t", "u", "v", "w", "x", "y", "z">>

Upper ==
    <<"A", "B", "C", "D", "E", "F", "G", "H", "I", "J", "K", "L", "M",
      "N", "O", "P", "Q", "R", "S", "T", "U", "V", "W", "X", "Y", "Z">>

Digits == <<"0", "1", "2", "3", "4", "5", "6", "7", "8", "9">>

\* strings.isSeparator on ASCII: letters, digits and the underscore are not
\* separators, every other character is.
isSeparator(c) ==
    /\ \A i \in 1..Len(Lower) : c # Lower[i] /\ c # Upper[i]
    /\ \A i \in 1..Len(Digits) : c # Digits[i]
    /\ c # "_"

\* unicode.ToTitle on ASCII.
ToTitle(c) ==
    IF \E i \in 1..Len(Lower) : c = Lower[i]
    THEN Upper[CHOOSE i \in 1..Len(Lower) : c = Lower[i]]
    ELSE c

\* A title-casing of the first letter only.
Title_FirstOnly(s) ==
    [i \in 1..Len(s) |-> IF i = 1 THEN ToTitle(s[i]) ELSE s[i]]

\* strings.Title of a text spelled character by character: the letter that
\* starts the text or follows a separator is mapped to its title case.
Title(s) ==
    [i \in 1..Len(s) |-> IF i = 1 \/ isSeparator(s[i - 1]) THEN ToTitle(s[i]) ELSE s[i]]

RECURSIVE FormatNat(_)
\* The decimal digits of n >= 0.
FormatNat(n) ==
    IF n < 10 THEN <<Digits[n + 1]>>
    ELSE FormatNat(n \div 10) \o <<Digits[(n % 10) + 1]>>

\* strconv.Itoa.
Itoa(n) == IF n < 0 THEN <<"-">> \o FormatNat(0 - n) ELSE FormatNat(n)

Strict == <<"strict">>
Loose == <<"loose">>

OutputToInput == <<"output-to-input">>
InputToOutput == <<"input-to-output">>
bidirectional == <<"bidirectional">>

LinkColor == <<"link#maltego.link.color">>
LinkStyle == <<"link#maltego.link.style">>
LinkThickness == <<"link#maltego.link.thickness">>
Label == <<"link#maltego.link.label">>
PropertyLinkDirection == <<"link#maltego.link.direction">>
Bookmark == <<"bookmark#">>
Notes == <<"notes#">>

\* AddProp repeats the body of AddProperty with its own field.
AddProp(h, fieldName, value) ==
    AppendCall([op |-> "AddProp", h |-> h, name |-> fieldName, value |-> value], h,
               [Text |-> EscapeText(value), MatchingRule |-> Strict, Name |-> fieldName,
                DisplayName |-> Title(fieldName)],
               value)

SetLinkColor(h, color) ==
    AddPropertyFrom([op |-> "SetLinkColor", h |-> h, value |-> color],
                    h, LinkColor, <<"LinkColor">>, Loose, color)

SetLinkStyle(h, style) ==
    AddPropertyFrom([op |-> "SetLinkStyle", h |-> h, value |-> style],
                    h, LinkStyle, <<"LinkStyle">>, Loose, style)

SetLinkThickness(h, thick) ==
    AddPropertyFrom([op |-> "SetLinkThickness", h |-> h, thick |-> thick],
                    h, LinkThickness, <<"LinkThickness">>, Loose, Itoa(thick))

SetLinkLabel(h, label) ==
    AddPropertyFrom([op |-> "SetLinkLabel", h |-> h, value |-> label],
                    h, Label, <<"Label">>, Loose, label)

SetBookmark(h, bookmark) ==
    AddPropertyFrom([op |-> "SetBookmark", h |-> h, value |-> bookmark],
                    h, Bookmark, <<"Bookmark">>, Loose, bookmark)

SetNote(h, note) ==
    AddPropertyFrom([op |-> "SetNote", h |-> h, value |-> note],
                    h, Notes, <<"Notes">>, Loose, note)

SetLinkDirection(h, dir) ==
    AddPropertyFrom([op |-> "SetLinkDirection", h |-> h, value |-> dir],
                    h, PropertyLinkDirection, <<"Direction">>, Loose, dir)

NewDisplayLabel(text, name) == [Text |-> text, Name |-> name, Type |-> <<"text/html">>]

\* The entity after AddDisplayInformation, the label put first.
WithLabel_Prepend(e, l) ==
    [e EXCEPT !.Info = Ref(<<l>> \o (IF @ = Nil THEN <<>> ELSE @[1]))]

\* The entity after "if tre.Info == nil { ... }" and the append.
WithLabel(e, l) ==
    [e EXCEPT !.Info = Ref((IF @ = Nil THEN <<>> ELSE @[1]) \o <<l>>)]

AddDisplayInformation(h, text, name) ==
    /\ UserRuns
    /\ h \in 1..Len(heap)
    /\ calls.n < MaxCalls
    /\ heap' = [heap EXCEPT ![h] = WithLabel(@, NewDisplayLabel(text, name))]
    /\ calls' = [calls EXCEPT !.AddDisplayInformation =
                    Append(@, [h |-> h, text |-> text, name |-> name]),
                              !.n = @ + 1]
    /\ ret' = RetNone
    /\ last' = Op("AddDisplayInformation", h)
    /\ UNCHANGED <<stdout, exitCode, transforms, util, wire, args, lt, escapeIn, escapeOut, tr, pc, http>>

\* The user's code assigns the exported field through the pointer it
\* holds: e.IconURL = url.
SetIconURL(h, url) ==
    /\ UserRuns
    /\ h \in 1..Len(heap)
    /\ calls.n < MaxCalls
    /\ heap' = [heap EXCEPT ![h].IconURL = url]
    /\ calls' = [calls EXCEPT !.SetIconURL = Append(@, [h |-> h, url |-> url]),
                              !.n = @ + 1]
    /\ ret' = RetNone
    /\ last' = Op("SetIconURL", h)
    /\ UNCHANGED <<stdout, exitCode, transforms, util, wire, args, lt, escapeIn, escapeOut, tr, pc, http>>

RECURSIVE FirstMatch(_, _, _)
\* A lookup that keeps the last field with the name.
FirstMatch_Last(items, i, name) ==
    IF {j \in i..Len(items) : items[j].Name = name} = {} THEN <<>>
    ELSE items[CHOOSE j \in {k \in i..Len(items) : items[k].Name = name} :
                   \A k \in i..Len(items) : items[k].Name = name => k <= j].Text

\* The loop of GetFieldByName over the items.
FirstMatch(items, i, name) ==
    IF i > Len(items) THEN <<>>
    ELSE IF items[i].Name = name THEN items[i].Text
    ELSE FirstMatch(items, i + 1, name)

\* tre.Fields.Items with tre.Fields nil is a nil pointer dereference: the
\* goroutine panics.  A local transform dies; net/http recovers the panic of
\* a handler and closes the connection without a response.  Either way no
\* statement after the call runs.
GetFieldByName(h, name) ==
    /\ UserRuns
    /\ h \in 1..Len(heap)
    /\ IF heap[h].Fields = Nil
       THEN /\ ret' = RetPanic
            /\ pc' = "panicked"
       ELSE /\ ret' = RetString(FirstMatch(heap[h].Fields[1], 1, name))
            /\ pc' = pc
    /\ last' = [op |-> "GetFieldByName", h |-> h, name |-> name]
    /\ UNCHANGED <<stdout, exitCode, transforms, util, wire, args, lt, escapeIn, escapeOut, tr, heap, calls, http>>

(***************************************************************************)
(* local.go                                                                *)
(***************************************************************************)
\* "if len(args) < 2".
MinArgs == 2

RECURSIVE SplitFrom(_, _, _)
\* strings.Split(s, sep) for a one-character sep, from index i on.
SplitFrom(s, i, sep) ==
    IF FindFrom(s, i, <<sep>>) = 0 THEN <<SubSeq(s, i, Len(s))>>
    ELSE <<SubSeq(s, i, FindFrom(s, i, <<sep>>) - 1)>>
             \o SplitFrom(s, FindFrom(s, i, <<sep>>) + 1, sep)

Split(s, sep) == SplitFrom(s, 1, sep)

RECURSIVE Join(_, _)
\* strings.Join(elems, sep).
Join(elems, sep) ==
    IF elems = <<>> THEN <<>>
    ELSE IF Len(elems) = 1 THEN elems[1]
    ELSE elems[1] \o <<sep>> \o Join(Tail(elems), sep)

RECURSIVE replacerFrom(_, _)
\* strings.NewReplacer("&amp;", "&", "\\=", "=").Replace from index i on:
\* at each position the first old text that matches is replaced and the
\* scan goes on behind it.
replacerFrom(s, i) ==
    IF i > Len(s) THEN <<>>
    ELSE IF HasPrefixAt(s, i, <<"&", "a", "m", "p", ";">>)
         THEN <<"&">> \o replacerFrom(s, i + 5)
    ELSE IF HasPrefixAt(s, i, <<"\\", "=">>) THEN <<"=">> \o replacerFrom(s, i + 2)
    ELSE <<s[i]>> \o replacerFrom(s, i + 1)

replacer(s) == replacerFrom(s, 1)

\* values[k] = v on a map.
Put(values, k, v) ==
    [x \in (DOMAIN values) \cup {k} |-> IF x = k THEN v ELSE values[x]]

\* A value that stops at the second "=" of the chunk.
ChunkValue_Second(kv) == IF Len(kv) >= 2 THEN replacer(kv[2]) ELSE <<>>

\* kv: the chunk split on "=".  The value stored under kv[0].
ChunkValue(kv) ==
    IF Len(kv) = 2 THEN replacer(kv[2])
    ELSE replacer(Join(SubSeq(kv, 2, Len(kv)), "="))

RECURSIVE PutChunks(_, _, _)
\* "for _, x := range vars", from vars[i] on.
PutChunks(values, chunks, i) ==
    IF i > Len(chunks) THEN values
    ELSE PutChunks(Put(values, Split(chunks[i], "=")[1], ChunkValue(Split(chunks[i], "="))),
                   chunks, i + 1)

\* arg: the argument after strings.ReplaceAll(arg, "\n", " ").
PutArg(values, arg) ==
    IF Len(arg) > 0 THEN PutChunks(values, Split(arg, "#"), 1) ELSE values

RECURSIVE PutArgs(_, _, _)
\* "for _, arg := range args[1:]", from rest[i] on.
PutArgs(values, rest, i) ==
    IF i > Len(rest) THEN values
    ELSE PutArgs(PutArg(values, ReplaceFrom(rest[i], 1, <<"\n">>, <<" ">>)), rest, i + 1)

\* An argument list that passes for too short only when it is empty.
TooFew_Empty(a) == Len(a) < 1

TooFew(a) == Len(a) < MinArgs

\* log.Fatal prints and ends the process with os.Exit(1): nothing is
\* returned.
ParseLocalArguments ==
    /\ pc = "local"
    /\ last.op = "init"
    /\ IF TooFew(args)
       THEN /\ pc' = "exited"
            /\ exitCode' = Ref(1)
            /\ lt' = lt
       ELSE /\ pc' = pc
            /\ exitCode' = exitCode
            /\ lt' = Ref([Value |-> args[1],
                          Values |-> PutArgs(<<>>, SubSeq(args, 2, Len(args)), 1)])
    /\ ret' = RetNone
    /\ last' = Op("ParseLocalArguments", 0)
    /\ UNCHANGED <<stdout, transforms, util, args, wire, escapeIn, escapeOut, tr, heap, calls, http>>

(***************************************************************************)
(* transform.go                                                            *)
(***************************************************************************)
EmptyResponse == [Entities |-> <<>>, UIMessages |-> <<>>]

\* A response payload made anew by every call.
EnsureResponse_Fresh(t) == EmptyResponse

\* tr.ResponseMessage after "if tr.ResponseMessage == nil { ... }".
EnsureResponse(t) == IF t.ResponseMessage = Nil THEN EmptyResponse ELSE t.ResponseMessage[1]

\* The value AddEntity stores, taken as given.
AddEntityValue_Raw(typ, value) == NewEntityValue(typ, value, <<"100">>)

AddEntityValue(typ, value) == NewEntityValue(typ, EscapeText(value), <<"100">>)

\* The pointer AddEntity returns, taken to be the first entity made.
Returned_First(hp) == 1

\* The pointer AddEntity returns: ent, the entity it has just allocated.
Returned(hp) == Len(hp) + 1

AddEntity(typ, value) ==
    /\ UserRuns
    /\ calls.n < MaxCalls
    /\ heap' = Append(heap, AddEntityValue(typ, value))
    /\ tr' = [tr EXCEPT !.ResponseMessage =
                 Ref([EnsureResponse(tr) EXCEPT !.Entities = Append(@, Len(heap) + 1)])]
    /\ calls' = [calls EXCEPT
                    !.entity = Append(@, [via |-> "AddEntity", typ |-> typ,
                                          value |-> value, props |-> <<>>,
                                          at |-> calls.n + 1]),
                    !.AddEntity = Append(@, Returned(heap)),
                    !.n = @ + 1]
    /\ ret' = RetHandle(Returned(heap))
    /\ last' = Op("AddEntity", Returned(heap))
    /\ UNCHANGED <<stdout, exitCode, transforms, util, wire, args, lt, escapeIn, escapeOut, pc, http>>

\* The envelope after AddUIMessage, the message put first.
WithUIMessage_Prepend(t, message, messageType) ==
    [t EXCEPT !.ResponseMessage =
        Ref([EnsureResponse(t) EXCEPT !.UIMessages =
                <<[Text |-> message, MessageType |-> messageType]>> \o @])]

WithUIMessage(t, message, messageType) ==
    [t EXCEPT !.ResponseMessage =
        Ref([EnsureResponse(t) EXCEPT !.UIMessages =
                Append(@, [Text |-> message, MessageType |-> messageType])])]

AddUIMessage(message, messageType) ==
    /\ UserRuns
    /\ calls.n < MaxCalls
    /\ tr' = WithUIMessage(tr, message, messageType)
    /\ calls' = [calls EXCEPT !.AddUIMessage =
                    Append(@, [message |-> message, messageType |-> messageType,
                               at |-> calls.n + 1]),
                              !.n = @ + 1]
    /\ ret' = RetNone
    /\ last' = Op("AddUIMessage", 0)
    /\ UNCHANGED <<stdout, exitCode, transforms, util, wire, args, lt, escapeIn, escapeOut, heap, pc, http>>

\* tr.ExceptionMessage after "if tr.ExceptionMessage == nil { ... }".
EnsureExceptions(t) ==
    IF t.ExceptionMessage = Nil THEN [Exceptions |-> <<>>] ELSE t.ExceptionMessage[1]

\* The envelope after AddException, the exception put first.
WithException_Prepend(t, exceptionString, code) ==
    [t EXCEPT !.ExceptionMessage =
        Ref([EnsureExceptions(t) EXCEPT !.Exceptions =
                <<[Text |-> exceptionString, Code |-> code]>> \o @])]

WithException(t, exceptionString, code) ==
    [t EXCEPT !.ExceptionMessage =
        Ref([EnsureExceptions(t) EXCEPT !.Exceptions =
                Append(@, [Text |-> exceptionString, Code |-> code])])]

AddException(exceptionString, code) ==
    /\ UserRuns
    /\ calls.n < MaxCalls
    /\ tr' = WithException(tr, exceptionString, code)
    /\ calls' = [calls EXCEPT !.AddException =
                    Append(@, [exceptionString |-> exceptionString, code |-> code]),
                              !.n = @ + 1]
    /\ ret' = RetNone
    /\ last' = Op("AddException", 0)
    /\ UNCHANGED <<stdout, exitCode, transforms, util, wire, args, lt, escapeIn, escapeOut, heap, pc, http>>

ReturnOutput ==
    /\ UserRuns
    /\ ret' = RetText(Marshal(tr, heap))
    /\ last' = Op("ReturnOutput", 0)
    /\ UNCHANGED <<stdout, exitCode, transforms, util, wire, args, lt, escapeIn, escapeOut, tr, heap, calls, pc, http>>

\* The envelope ThrowExceptions marshals, the response payload left in place.
Thrown_KeepResponse(t) == t

\* The envelope ThrowExceptions marshals: tr.ResponseMessage = nil.
Thrown(t) == [t EXCEPT !.ResponseMessage = Nil]

ThrowExceptions ==
    /\ UserRuns
    /\ tr' = Thrown(tr)
    /\ ret' = RetText(Marshal(tr', heap))
    /\ calls' = [calls EXCEPT !.ThrowExceptions = TRUE]
    /\ last' = Op("ThrowExceptions", 0)
    /\ UNCHANGED <<stdout, exitCode, transforms, util, wire, args, lt, escapeIn, escapeOut, heap, pc, http>>

(***************************************************************************)
(* util.go: Die.                                                           *)
(***************************************************************************)
UIMessageFatal == <<"FatalError">>

\* The message with the error put first.
DieMessage_ErrFirst(err, msg) == err \o <<":", " ">> \o msg

\* msg+": "+err
DieMessage(err, msg) == msg \o <<":", " ">> \o err

\* Die up to fmt.Println(trx.ReturnOutput()): trx is a new Transform{} of
\* its own, with no entity.
DiePrint(err, msg) ==
    /\ pc = "local"
    /\ stdout' = stdout
                    \o Marshal(WithUIMessage(EmptyTransform, DieMessage(err, msg),
                                              UIMessageFatal), <<>>)
                    \o <<"\n">>
    /\ pc' = "dying"
    /\ ret' = RetNone
    /\ last' = [op |-> "Die", h |-> 0, err |-> err, msg |-> msg]
    /\ UNCHANGED <<exitCode, transforms, util, wire, args, lt, escapeIn, escapeOut, tr,
                   heap, calls, http>>

\* The rest of Die: log.Println writes to the standard error, os.Exit(0)
\* ends the process.
DieExit ==
    /\ pc = "dying"
    /\ exitCode' = Ref(0)
    /\ pc' = "exited"
    /\ UNCHANGED <<stdout, transforms, util, wire, args, lt, escapeIn, escapeOut, tr, heap,
                   ret, last, calls, http>>

(***************************************************************************)
(* handler.go: the closure MakeHandler returns.                            *)
(***************************************************************************)
RECURSIVE Fprintf(_, _)
\* fmt.Fprintf(w, format) with no operands: "%%" writes "%", a verb writes
\* "%!verb(MISSING)", a "%" that ends the format writes "%!(NOVERB)".  (The
\* texts of the model put no flag, width or precision after a "%".)
Fprintf(format, from) ==
    LET i == NextIn(format, from, {"%"})
        plain == SubSeq(format, from, i - 1)
    IN  IF i > Len(format) THEN plain
        ELSE IF i = Len(format) THEN plain \o <<"%", "!", "(", "NOVERB", ")">>
        ELSE IF format[i + 1] = "%" THEN plain \o <<"%">> \o Fprintf(format, i + 2)
        ELSE plain \o <<"%", "!", format[i + 1], "(", "MISSING", ")">>
                 \o Fprintf(format, i + 2)

\* The envelope and the heap that hold a decoded message u.
LoadEntities(u, resp, req) ==
    [heap |-> resp \o req,
     tr |-> [ResponseMessage |->
                 IF u.ResponseMessage = Nil THEN Nil
                 ELSE Ref([u.ResponseMessage[1] EXCEPT
                              !.Entities = [i \in 1..Len(resp) |-> i]]),
             ExceptionMessage |-> u.ExceptionMessage,
             RequestMessage |->
                 IF u.RequestMessage = Nil THEN Nil
                 ELSE Ref([u.RequestMessage[1] EXCEPT
                              !.Entities = [i \in 1..Len(req) |-> Len(resp) + i]])]]

LoadTransform(u) ==
    LoadEntities(u,
                 IF u.ResponseMessage = Nil THEN <<>> ELSE u.ResponseMessage[1].Entities,
                 IF u.RequestMessage = Nil THEN <<>> ELSE u.RequestMessage[1].Entities)

Respond(status, body) ==
    /\ http' = [status |-> status, body |-> body, handlerRuns |-> 0]
    /\ pc' = "responded"
    /\ ret' = RetNone
    /\ UNCHANGED <<tr, heap, calls>>

\* handler(w, r, t): the user's handler starts on the decoded envelope.
Invoke(l) ==
    /\ tr' = l.tr
    /\ heap' = l.heap
    /\ calls' = [NoCalls EXCEPT !.entity =
                    [i \in 1..Len(l.heap) |->
                        [via |-> "Unmarshal", typ |-> l.heap[i].Type,
                         value |-> l.heap[i].Value, props |-> <<>>, at |-> 0]]]
    /\ http' = [NoExchange EXCEPT !.handlerRuns = 1]
    /\ ret' = RetNone
    /\ pc' = "handler"

\* A check of the request message that takes any number of entities.
Dispatch_AnyCount(u) ==
    IF ~u.ok THEN Respond(400, <<"unmarshal error", "\n">>)
    ELSE IF u.RequestMessage = Nil
    THEN Respond(400, <<"malformed RequestMessage", "\n">>)
    ELSE Invoke(LoadTransform(u))

\* u: what xml.Unmarshal(body, t) gave.
Dispatch(u) ==
    IF ~u.ok THEN Respond(400, <<"unmarshal error", "\n">>)
    ELSE IF u.RequestMessage = Nil \/ Len(u.RequestMessage[1].Entities) # 1
    THEN Respond(400, <<"malformed RequestMessage", "\n">>)
    ELSE Invoke(LoadTransform(u))

\* From the top of the closure to the call of the user's handler.
Serve(method, readOk, body) ==
    /\ pc = "listening"
    /\ last' = [op |-> "Serve", h |-> 0, method |-> method, readOk |-> readOk]
    /\ wire' = body
    /\ UNCHANGED <<stdout, exitCode, transforms, util, args, lt, escapeIn, escapeOut>>
    /\ IF method # "POST"
       THEN Respond(200, <<"please send a POST request to this endpoint">>)
       ELSE IF ~readOk THEN Respond(400, <<"read error", "\n">>)
       ELSE IF Len(body) = 0
       THEN Respond(200, <<"empty body received. please add data">>)
       ELSE Dispatch(Unmarshal(body))

\* A handler of cmd/trx whose lookup failed: http.Error(w, err.Error(),
\* http.StatusBadRequest) writes the status and the error text as a line,
\* and the handler returns.  The lookup is its first statement.
LookupFails(err) ==
    /\ pc = "handler"
    /\ calls.n = 0
    /\ http' = [http EXCEPT !.status = 400, !.body = @ \o err \o <<"\n">>]
    /\ pc' = "returned"
    /\ ret' = RetNone
    /\ last' = Op("LookupFails", 0)
    /\ UNCHANGED <<stdout, exitCode, transforms, util, wire, args, lt, escapeIn, escapeOut,
                   tr, heap, calls>>

\* The envelope rendered with no closing message.
Completed_Skip(t) == t

\* t.AddUIMessage("complete", UIMessageInform)
Completed(t) == WithUIMessage(t, <<"complete">>, <<"Inform">>)

\* From the return of the user's handler to the end of the closure.
HandlerReturn(writeOk) ==
    /\ pc \in {"handler", "returned"}
    /\ tr' = Completed(tr)
    /\ calls' = [calls EXCEPT !.AddUIMessage =
                    Append(@, [message |-> <<"complete">>, messageType |-> <<"Inform">>,
                               at |-> 0])]
    /\ ret' = RetText(Marshal(tr', heap))
    /\ http' = [http EXCEPT
                   !.status = IF @ = 0 THEN 200 ELSE @,
                   !.body = IF writeOk THEN @ \o Fprintf(ret'.text, 1) ELSE @]
    /\ pc' = "responded"
    /\ last' = Op("HandlerReturn", 0)
    /\ UNCHANGED <<stdout, exitCode, transforms, util, wire, args, lt, escapeIn, escapeOut, heap>>

(***************************************************************************)
(* The escaping utility on its own.                                        *)
(***************************************************************************)
EscapeTextCall ==
    /\ escapeOut = Nil
    /\ escapeOut' = Ref(EscapeText(escapeIn))
    /\ UNCHANGED <<stdout, exitCode, transforms, util, wire, args, lt, escapeIn, tr, heap, ret, last, calls, pc, http>>

(***************************************************************************)
(* Inputs.                                                                 *)
(***************************************************************************)
\* Arguments of AddEntity, AddUIMessage and AddException on an envelope.
EntityArgs ==
    {[typ |-> <<"type">>, value |-> <<"value">>],
     [typ |-> <<"type2">>, value |-> <<"a", "&", "<">>]}

UIArgs ==
    {[message |-> <<"message">>, messageType |-> <<"Debug">>],
     [message |-> <<"a", "<", "\"">>, messageType |-> <<"FatalError">>]}

ExceptionArgs ==
    {[exceptionString |-> <<"oops">>, code |-> <<"errorCode">>],
     [exceptionString |-> <<"&", ">">>, code |-> <<"c", "\"">>]}

\* Texts written by a client, as markup.
Open(name) == <<"<", name, ">">>
Close(name) == <<"<", "/", name, ">">>
Limits256 ==
    <<"<", "Limits", " ", "SoftLimit", "=", "\"", "256", "\"",
      " ", "HardLimit", "=", "\"", "256", "\"", "/", ">">>
RequestEntity ==
    <<"<", "Entity", " ", "Type", "=", "\"", "DNSName", "\"", ">">>
    \o Open("Genealogy")
    \o <<"<", "Type", " ", "Name", "=", "\"", "maltego.DNSName", "\"",
         " ", "OldName", "=", "\"", "DNSName", "\"", "/", ">">>
    \o Close("Genealogy")
    \o Open("AdditionalFields")
    \o <<"<", "Field", " ", "Name", "=", "\"", "fqdn", "\"",
         " ", "DisplayName", "=", "\"", "DNS Name", "\"", ">",
         "alpine.paterva.com">> \o Close("Field")
    \o Close("AdditionalFields")
    \o Open("Value") \o <<"alpine.paterva.com">> \o Close("Value")
    \o Open("Weight") \o <<"0">> \o Close("Weight")
    \o Close("Entity")

RequestBody(entities) ==
    Open("MaltegoMessage") \o Open("MaltegoTransformRequestMessage")
    \o Open("Entities") \o entities \o Close("Entities") \o Limits256
    \o Close("MaltegoTransformRequestMessage") \o Close("MaltegoMessage")

ResponseBody ==
    Open("MaltegoMessage") \o Open("MaltegoTransformResponseMessage")
    \o Open("Entities") \o Close("Entities")
    \o Open("UIMessages")
    \o <<"<", "UIMessage", " ", "MessageType", "=", "\"", "Inform", "\"", ">",
         "Slider value is at: 256">> \o Close("UIMessage")
    \o Close("UIMessages")
    \o Close("MaltegoTransformResponseMessage") \o Close("MaltegoMessage")

\* Request bodies: one entity, none, two, no request payload, cut short.
Bodies ==
    {RequestBody(RequestEntity), RequestBody(<<>>),
     RequestBody(RequestEntity \o RequestEntity), ResponseBody,
     Open("MaltegoMessage") \o Open("MaltegoTransformRequestMessage"), <<>>}

(***************************************************************************)
(* The specification: a Transform{} used by a local transform, or the      *)
(* envelopes MakeHandler decodes and hands to the user's handler.          *)
(***************************************************************************)
Init ==
    /\ escapeIn = <<>>
    /\ escapeOut = Nil
    /\ wire = <<>>
    /\ args = <<>>
    /\ lt = Nil
    /\ stdout = <<>>
    /\ exitCode = Nil
    /\ transforms = <<>>
    /\ util = NoUtil
    /\ tr = EmptyTransform
    /\ heap = <<>>
    /\ ret = RetNone
    /\ last = Op("init", 0)
    /\ calls = NoCalls
    /\ pc \in {"local", "listening"}
    /\ http = NoExchange

Next ==
    \/ \E a \in EntityArgs : AddEntity(a.typ, a.value)
    \/ \E a \in UIArgs : AddUIMessage(a.message, a.messageType)
    \/ \E a \in ExceptionArgs : AddException(a.exceptionString, a.code)
    \/ ReturnOutput
    \/ ThrowExceptions
    \/ \E method \in {"GET", "POST"}, readOk \in BOOLEAN, body \in Bodies :
           Serve(method, readOk, body)
    \/ \E writeOk \in BOOLEAN : HandlerReturn(writeOk)

Spec == Init /\ [][Next]_vars

(***************************************************************************)
(* The escaping utility called on one text.                                *)
(***************************************************************************)
\* The pieces an argument text is made of: each character the escaping
\* changes, a plain one, the line-feed entity typed out, and its tail.
Pieces ==
    {<<"a">>, <<"&">>, <<"<">>, <<">">>, <<"\"">>, <<"'">>, <<"\n">>, <<"\t">>,
     <<"\r">>, escNL, <<"#", "x", "A", ";">>}

RECURSIVE Texts(_)
\* The texts made of at most n pieces.
Texts(n) ==
    IF n = 0 THEN {<<>>}
    ELSE Texts(n - 1) \cup {t \o p : t \in Texts(n - 1), p \in Pieces}

InitEscape ==
    /\ escapeIn \in Texts(MaxParts)
    /\ escapeOut = Nil
    /\ wire = <<>>
    /\ args = <<>>
    /\ lt = Nil
    /\ stdout = <<>>
    /\ exitCode = Nil
    /\ transforms = <<>>
    /\ util = NoUtil
    /\ tr = EmptyTransform
    /\ heap = <<>>
    /\ ret = RetNone
    /\ last = Op("init", 0)
    /\ calls = NoCalls
    /\ pc = "local"
    /\ http = NoExchange

NextEscape == EscapeTextCall

SpecEscape == InitEscape /\ [][NextEscape]_vars

(***************************************************************************)
(* A local transform that builds entities: NewEntity, AddEntity,           *)
(* AddProperty and GetFieldByName on them, and ReturnOutput.               *)
(***************************************************************************)
Values == {<<"value">>, <<"a", "&", "<">>, <<"\"", "\n", ">">>}

FieldNames == {<<"fqdn">>, <<"note">>}

InitEntity ==
    /\ escapeIn = <<>>
    /\ escapeOut = Nil
    /\ wire = <<>>
    /\ args = <<>>
    /\ lt = Nil
    /\ stdout = <<>>
    /\ exitCode = Nil
    /\ transforms = <<>>
    /\ util = NoUtil
    /\ tr = EmptyTransform
    /\ heap = <<>>
    /\ ret = RetNone
    /\ last = Op("init", 0)
    /\ calls = NoCalls
    /\ pc = "local"
    /\ http = NoExchange

NextEntity ==
    \/ \E value \in Values : NewEntity(<<"maltego.Phrase">>, value, <<"100">>)
    \/ \E value \in Values : AddEntity(<<"maltego.Phrase">>, value)
    \/ \E h \in 1..Len(heap), name \in FieldNames, value \in Values :
           AddProperty(h, name, <<"Display Name">>, <<"strict">>, value)
    \/ \E h \in 1..Len(heap), name \in FieldNames : GetFieldByName(h, name)
    \/ ReturnOutput

SpecEntity == InitEntity /\ [][NextEntity]_vars

(***************************************************************************)
(* A local transform that keeps the pointers AddEntity returned and uses   *)
(* them later, as the handlers of cmd/trx do with e.AddProperty.           *)
(***************************************************************************)
HandleValues == {<<"alice">>, <<"bob">>}

NextHandles ==
    \/ \E value \in HandleValues : AddEntity(<<"maltego.Phrase">>, value)
    \/ AddUIMessage(<<"note">>, <<"Inform">>)
    \/ \E k \in 1..Len(calls.AddEntity), value \in HandleValues :
           AddProperty(calls.AddEntity[k], <<"hostname">>, <<"Hostname">>, Strict, value)
    \/ \E k \in 1..Len(calls.AddEntity) :
           AddDisplayInformation(calls.AddEntity[k], <<"name">>, <<"text">>)
    \/ \E k \in 1..Len(calls.AddEntity) :
           SetIconURL(calls.AddEntity[k], <<"http://asdf.com">>)
    \/ ReturnOutput

SpecHandles == InitEntity /\ [][NextHandles]_vars

(***************************************************************************)
(* A local transform that sets properties on the entities it makes, with   *)
(* AddProperty, AddProp and the setters.                                   *)
(***************************************************************************)
PropertyValues == {<<"value">>, <<"a", "&", "<">>}

\* Field names spelled character by character, as strings.Title reads them.
PropertyNames == {<<"f", "q", "d", "n">>, <<"i", "p", ".", "v", "4">>}

Thicknesses == {0 - 7, 0, 12}

LinkDirections == {OutputToInput, InputToOutput, bidirectional}

NextSetters ==
    \/ \E value \in PropertyValues : NewEntity(<<"maltego.Phrase">>, value, <<"100">>)
    \/ \E h \in 1..Len(heap), name \in PropertyNames, value \in PropertyValues :
           AddProperty(h, name, <<"Display Name">>, Strict, value)
    \/ \E h \in 1..Len(heap), name \in PropertyNames, value \in PropertyValues :
           AddProp(h, name, value)
    \/ \E h \in 1..Len(heap), color \in PropertyValues : SetLinkColor(h, color)
    \/ \E h \in 1..Len(heap), style \in PropertyValues : SetLinkStyle(h, style)
    \/ \E h \in 1..Len(heap), thick \in Thicknesses : SetLinkThickness(h, thick)
    \/ \E h \in 1..Len(heap), label \in PropertyValues : SetLinkLabel(h, label)
    \/ \E h \in 1..Len(heap), bookmark \in PropertyValues : SetBookmark(h, bookmark)
    \/ \E h \in 1..Len(heap), note \in PropertyValues : SetNote(h, note)
    \/ \E h \in 1..Len(heap), dir \in LinkDirections : SetLinkDirection(h, dir)

SpecSetters == InitEntity /\ [][NextSetters]_vars

(***************************************************************************)
(* A local transform started with an argument list, which it hands to      *)
(* ParseLocalArguments.                                                    *)
(***************************************************************************)
\* The pieces of an argument after the first: a plain character, the two
\* separators, a newline, a backslash and the ampersand entity.
ArgPieces ==
    {<<"k">>, <<"=">>, <<"#">>, <<"\n">>, <<"\\">>, <<"&", "a", "m", "p", ";">>}

PrimaryValues == {<<"v">>, <<"v", "\n", "w">>}

RECURSIVE ArgTexts(_)
\* The texts made of exactly q pieces.
ArgTexts(q) ==
    IF q = 0 THEN {<<>>} ELSE {t \o p : t \in ArgTexts(q - 1), p \in ArgPieces}

RECURSIVE RestLists(_, _)
\* The lists of k arguments made of at most p pieces together.
RestLists(k, p) ==
    IF k = 0 THEN {<<>>}
    ELSE UNION {{<<t>> \o r : t \in ArgTexts(q), r \in RestLists(k - 1, p - q)} :
                    q \in 0..p}

\* No argument, or a first argument and up to MinArgs more: lists shorter
\* than MinArgs, of MinArgs and longer.
ArgLists ==
    {<<>>} \cup {<<v>> \o r : v \in PrimaryValues,
                              r \in UNION {RestLists(k, MaxArgParts) : k \in 0..MinArgs}}

InitArgs ==
    /\ escapeIn = <<>>
    /\ escapeOut = Nil
    /\ wire = <<>>
    /\ args \in ArgLists
    /\ lt = Nil
    /\ stdout = <<>>
    /\ exitCode = Nil
    /\ transforms = <<>>
    /\ util = NoUtil
    /\ tr = EmptyTransform
    /\ heap = <<>>
    /\ ret = RetNone
    /\ last = Op("init", 0)
    /\ calls = NoCalls
    /\ pc = "local"
    /\ http = NoExchange

NextArgs == ParseLocalArguments

SpecArgs == InitArgs /\ [][NextArgs]_vars

(***************************************************************************)
(* generate.go: ToTransformDisplayName, on names spelled character by      *)
(* character.                                                              *)
(***************************************************************************)
MaxName == 4

IsUpper(c) == \E i \in 1..Len(Upper) : c = Upper[i]
IsLower(c) == \E i \in 1..Len(Lower) : c = Lower[i]

RECURSIVE TrimLeft(_)
TrimLeft(s) == IF s # <<>> /\ Head(s) = " " THEN TrimLeft(Tail(s)) ELSE s

RECURSIVE TrimRight(_)
TrimRight(s) ==
    IF s # <<>> /\ s[Len(s)] = " " THEN TrimRight(SubSeq(s, 1, Len(s) - 1)) ELSE s

TrimSpace_Keep(s) == s
TrimSpace(s) == TrimRight(TrimLeft(s))

\* What one turn of the loop writes for the character at place i (the
\* source counts from 0, the model from 1).
WriteRunes(in, i) ==
    CASE i > 1 /\ IsUpper(in[i]) /\ IsLower(in[i - 1]) -> <<" ", in[i]>>
      [] ~(i > 1 /\ IsUpper(in[i]) /\ IsLower(in[i - 1]))
            /\ IsUpper(in[i]) /\ Len(in) > i /\ IsLower(in[i + 1]) ->
            IF (Len(in) > i + 1 /\ IsUpper(in[i + 2])) \/ Len(in) = i + 1
            THEN <<in[i]>>
            ELSE <<" ", in[i]>>
      [] OTHER -> <<in[i]>>

RECURSIVE Builder(_, _, _)
Builder(in, i, b) ==
    IF i > Len(in) THEN b ELSE Builder(in, i + 1, b \o WriteRunes(in, i))

ToTransformDisplayName(in) == TrimSpace(Builder(in, 1, <<>>) \o <<" ", "[NETCAP]">>)

CallToTransformDisplayName ==
    /\ util.op = "none"
    /\ util' = [op |-> "ToTransformDisplayName", in |-> util.in,
                out |-> ToTransformDisplayName(util.in)]
    /\ UNCHANGED <<stdout, exitCode, transforms, wire, args, lt, escapeIn, escapeOut, tr,
                   heap, ret, last, calls, pc, http>>

NameLetters == {"T", "o", "I", "P", "s"}

RECURSIVE NamesUpTo(_)
NamesUpTo(n) ==
    IF n = 0 THEN {<<>>}
    ELSE NamesUpTo(n - 1) \cup {Append(w, c) : w \in NamesUpTo(n - 1), c \in NameLetters}

ToURLsForHost == <<"T", "o", "U", "R", "L", "s", "F", "o", "r", "H", "o", "s", "t">>
ToSourceIPs == <<"T", "o", "S", "o", "u", "r", "c", "e", "I", "P", "s">>
ToTCPServices == <<"T", "o", "T", "C", "P", "S", "e", "r", "v", "i", "c", "e", "s">>
ToDHCP == <<"T", "o", "D", "H", "C", "P">>

TransformNames == NamesUpTo(MaxName) \cup {ToURLsForHost, ToSourceIPs, ToTCPServices, ToDHCP}

InitNames ==
    /\ escapeIn = <<>>
    /\ escapeOut = Nil
    /\ wire = <<>>
    /\ args = <<>>
    /\ lt = Nil
    /\ stdout = <<>>
    /\ exitCode = Nil
    /\ transforms = <<>>
    /\ util \in {[op |-> "none", in |-> in, out |-> <<>>] : in \in TransformNames}
    /\ tr = EmptyTransform
    /\ heap = <<>>
    /\ ret = RetNone
    /\ last = Op("init", 0)
    /\ calls = NoCalls
    /\ pc = "local"
    /\ http = NoExchange

NextNames == CallToTransformDisplayName

SpecNames == InitNames /\ [][NextNames]_vars

(***************************************************************************)
(* util.go: GetThicknessInterval.  The arguments are unsigned integers of  *)
(* Width bits (64 in the source): subtraction and multiplication wrap.     *)
(***************************************************************************)
Width == 4

Modulus == 2 ^ Width

Sub(a, b) == (a - b + Modulus) % Modulus
Mul(a, b) == (a * b) % Modulus

\* if min == max { min = 0 }; interval := (max - min) / 5
Interval(min, max) == Sub(max, IF min = max THEN 0 ELSE min) \div 5

\* A thickness that starts again at 1 beyond five intervals.
Thickness_Wrapped(val, interval) == ((val \div (interval + 1)) % 5) + 1

\* The switch.
Thickness(val, interval) ==
    CASE val <= interval -> 1
      [] val > interval /\ val <= Mul(interval, 2) -> 2
      [] val > interval /\ val > Mul(interval, 2) /\ val <= Mul(interval, 3) -> 3
      [] val > interval /\ val > Mul(interval, 2) /\ val > Mul(interval, 3)
            /\ val <= Mul(interval, 4) -> 4
      [] OTHER -> 5

GetThicknessInterval(val, min, max) == Thickness(val, Interval(min, max))

CallGetThicknessInterval ==
    /\ util.op = "none"
    /\ util' = [op |-> "GetThicknessInterval", in |-> util.in,
                out |-> <<GetThicknessInterval(util.in[1], util.in[2], util.in[3])>>]
    /\ UNCHANGED <<stdout, exitCode, transforms, wire, args, lt, escapeIn, escapeOut, tr,
                   heap, ret, last, calls, pc, http>>

InitThickness ==
    /\ escapeIn = <<>>
    /\ escapeOut = Nil
    /\ wire = <<>>
    /\ args = <<>>
    /\ lt = Nil
    /\ stdout = <<>>
    /\ exitCode = Nil
    /\ transforms = <<>>
    /\ util \in {[op |-> "none", in |-> <<val, min, max>>, out |-> <<>>] :
                     val \in 0..(Modulus - 1), min \in 0..(Modulus - 1),
                     max \in 0..(Modulus - 1)}
    /\ tr = EmptyTransform
    /\ heap = <<>>
    /\ ret = RetNone
    /\ last = Op("init", 0)
    /\ calls = NoCalls
    /\ pc = "local"
    /\ http = NoExchange

NextThickness == CallGetThicknessInterval

SpecThickness == InitThickness /\ [][NextThickness]_vars

(***************************************************************************)
(* handler.go: the registry of transforms and the Home page.               *)
(***************************************************************************)
MaxRoutes == 3

Registered_Front(ts, name) == <<name>> \o ts
Registered(ts, name) == Append(ts, name)

\* RegisterTransform appends the name, then hands the route to
\* http.HandleFunc, which panics on a pattern that is registered already.
RegisterTransform(name) ==
    /\ pc \in {"setup", "serving"}
    /\ Len(transforms) < MaxRoutes
    /\ transforms' = Registered(transforms, name)
    /\ pc' = IF \E i \in 1..Len(transforms) : transforms[i] = name THEN "panicked" ELSE pc
    /\ last' = Op("RegisterTransform", 0)
    /\ UNCHANGED <<stdout, exitCode, util, wire, args, lt, escapeIn, escapeOut, tr, heap,
                   ret, calls, http>>

\* main registers Home and starts to listen.
ListenAndServe ==
    /\ pc = "setup"
    /\ pc' = "serving"
    /\ last' = Op("ListenAndServe", 0)
    /\ UNCHANGED <<stdout, exitCode, transforms, util, wire, args, lt, escapeIn, escapeOut,
                   tr, heap, ret, calls, http>>

Greeting == <<"Hi there! You've reached a Maltego transform server.", "<br>", "<br>",
              "routes:", "<br>">>

RECURSIVE RoutesFrom(_, _, _)
RoutesFrom(ts, i, routes) ==
    IF i > Len(ts) THEN routes
    ELSE RoutesFrom(ts, i + 1, routes \o <<"/run/", ts[i], "<br>">>)

Home ==
    /\ pc = "serving"
    /\ http' = [status |-> 200, body |-> Greeting \o RoutesFrom(transforms, 1, <<>>),
                handlerRuns |-> 0]
    /\ last' = Op("Home", 0)
    /\ UNCHANGED <<stdout, exitCode, transforms, util, wire, args, lt, escapeIn, escapeOut,
                   tr, heap, ret, calls, pc>>

RouteNames == {"lookupAddr", "lookupMX", "lookupNS"}

InitRegistry ==
    /\ escapeIn = <<>>
    /\ escapeOut = Nil
    /\ wire = <<>>
    /\ args = <<>>
    /\ lt = Nil
    /\ stdout = <<>>
    /\ exitCode = Nil
    /\ transforms = <<>>
    /\ util = NoUtil
    /\ tr = EmptyTransform
    /\ heap = <<>>
    /\ ret = RetNone
    /\ last = Op("init", 0)
    /\ calls = NoCalls
    /\ pc = "setup"
    /\ http = NoExchange

NextRegistry ==
    \/ \E name \in RouteNames : RegisterTransform(name)
    \/ ListenAndServe
    \/ Home

SpecRegistry == InitRegistry /\ [][NextRegistry]_vars

(***************************************************************************)
(* A server of cmd/trx: a handler made with MakeHandler that looks a name  *)
(* up and adds an entity with a property for each result.                  *)
(***************************************************************************)
LookupBodies == {RequestBody(RequestEntity), RequestBody(<<>>)}

LookupResults == {<<"ns1.paterva.com">>, <<"1", "0", "0", "%">>}

InitLookup ==
    /\ escapeIn = <<>>
    /\ escapeOut = Nil
    /\ wire = <<>>
    /\ args = <<>>
    /\ lt = Nil
    /\ stdout = <<>>
    /\ exitCode = Nil
    /\ transforms = <<>>
    /\ util = NoUtil
    /\ tr = EmptyTransform
    /\ heap = <<>>
    /\ ret = RetNone
    /\ last = Op("init", 0)
    /\ calls = NoCalls
    /\ pc = "listening"
    /\ http = NoExchange

NextLookup ==
    \/ \E body \in LookupBodies : Serve("POST", TRUE, body)
    \/ LookupFails(<<"lookup", ":", " ", "no such host">>)
    \/ \E host \in LookupResults : AddEntity(<<"maltego.NSRecord">>, host)
    \/ \E host \in LookupResults :
           /\ ret.kind = "handle"
           /\ AddProperty(ret.h, <<"hostname">>, <<"Hostname">>, Strict, host)
    \/ \E writeOk \in BOOLEAN : HandlerReturn(writeOk)

SpecLookup == InitLookup /\ [][NextLookup]_vars

(***************************************************************************)
(* A local transform that gives up with Die.                               *)
(***************************************************************************)
\* Error texts and messages: those of the example and texts with markup.
DieTexts ==
    {<<>>, <<"invalid ip">>, <<"failed to lookup address">>,
     <<"10.0.0.300", " is not a valid IP address">>, <<"a", "&", "<">>,
     <<"1", "0", "0", "%">>, <<"\"", ">">>, <<"lookup", ":", " ", "no such host">>}

InitDie ==
    /\ escapeIn = <<>>
    /\ escapeOut = Nil
    /\ wire = <<>>
    /\ args = <<>>
    /\ lt = Nil
    /\ stdout = <<>>
    /\ exitCode = Nil
    /\ transforms = <<>>
    /\ util = NoUtil
    /\ tr = EmptyTransform
    /\ heap = <<>>
    /\ ret = RetNone
    /\ last = Op("init", 0)
    /\ calls = NoCalls
    /\ pc = "local"
    /\ http = NoExchange

NextDie ==
    \/ \E err \in DieTexts, msg \in DieTexts : DiePrint(err, msg)
    \/ DieExit

SpecDie == InitDie /\ [][NextDie]_vars

(***************************************************************************)
(* A caller decoding a wire text into a Transform{}, as the tests and      *)
(* MakeHandler do, and encoding it again.                                  *)
(***************************************************************************)
\* The entity of the response of TestParseTDSToMaltego, its Value as CDATA.
SecondEntity ==
    <<"<", "Entity", " ", "Type", "=", "\"", "maltego.IPv4Address", "\"", ">">>
    \o Open("Value") \o cdataStart \o <<"173.230.156.137">> \o cdataEnd \o Close("Value")
    \o Open("Weight") \o <<"100">> \o Close("Weight")
    \o Close("Entity")

\* An entity whose Type and Value hold entity references.
EscapedEntity ==
    <<"<", "Entity", " ", "Type", "=", "\"", "a", "&", "a", "m", "p", ";", "b", "\"", ">">>
    \o Open("Value") \o <<"x", "&", "l", "t", ";", "y">> \o Close("Value")
    \o Close("Entity")

Limits12 ==
    <<"<", "Limits", " ", "SoftLimit", "=", "\"", "12", "\"",
      " ", "HardLimit", "=", "\"", "255", "\"", "/", ">">>

RequestChild(entities, limits) ==
    Open("MaltegoTransformRequestMessage")
    \o Open("Entities") \o entities \o Close("Entities") \o limits
    \o Close("MaltegoTransformRequestMessage")

\* A child of the root, by kind.
RootChild(kind) ==
    CASE kind = "request1" -> RequestChild(RequestEntity, Limits256)
      [] kind = "request2" -> RequestChild(RequestEntity \o SecondEntity, Limits256)
      [] kind = "request0" -> RequestChild(<<>>, Limits256)
      [] kind = "requestEscaped" -> RequestChild(EscapedEntity, Limits12)
      [] kind = "response" ->
             Open("MaltegoTransformResponseMessage")
             \o Open("Entities") \o SecondEntity \o Close("Entities")
             \o Open("UIMessages")
             \o <<"<", "UIMessage", " ", "MessageType", "=", "\"", "Inform", "\"", ">",
                  "Slider value is at: 256">> \o Close("UIMessage")
             \o Close("UIMessages")
             \o Close("MaltegoTransformResponseMessage")
      [] kind = "exception" ->
             Open("MaltegoTransformExceptionMessage") \o Open("Exceptions")
             \o <<"<", "Exception", " ", "code", "=", "\"", "errorCode", "\"", ">",
                  "oops">> \o Close("Exception")
             \o Close("Exceptions") \o Close("MaltegoTransformExceptionMessage")
      [] kind = "unknown" -> Open("Unknown") \o <<"text">> \o Close("Unknown")

RootChildKinds ==
    {"request1", "request2", "request0", "requestEscaped", "response", "exception",
     "unknown"}

RequestKinds == {"request1", "request2", "request0", "requestEscaped"}

RECURSIVE KindLists(_)
\* The lists of at most n kinds.
KindLists(n) ==
    IF n = 0 THEN {<<>>}
    ELSE KindLists(n - 1) \cup {Append(l, k) : l \in KindLists(n - 1), k \in RootChildKinds}

MessageOf(children) ==
    Open("MaltegoMessage")
    \o Flatten([i \in 1..Len(children) |-> RootChild(children[i])])
    \o Close("MaltegoMessage")

\* l: the envelope and the entities the decoder filled.
Filled(l) ==
    /\ tr' = l.tr
    /\ heap' = l.heap
    /\ ret' = RetNone

\* u: what the decoder made of the text.
Decoded(u) ==
    IF u.ok THEN Filled(LoadTransform(u))
    ELSE /\ ret' = RetError
         /\ UNCHANGED <<tr, heap>>

\* tr := &Transform{}; err := xml.Unmarshal(text, tr)
Decode(children) ==
    /\ pc = "local"
    /\ last.op = "init"
    /\ wire' = MessageOf(children)
    /\ Decoded(Unmarshal(MessageOf(children)))
    /\ last' = [op |-> "Unmarshal", h |-> 0, children |-> children]
    /\ UNCHANGED <<stdout, exitCode, transforms, util, args, lt, escapeIn, escapeOut, calls, pc, http>>

InitDecode ==
    /\ escapeIn = <<>>
    /\ escapeOut = Nil
    /\ wire = <<>>
    /\ args = <<>>
    /\ lt = Nil
    /\ stdout = <<>>
    /\ exitCode = Nil
    /\ transforms = <<>>
    /\ util = NoUtil
    /\ tr = EmptyTransform
    /\ heap = <<>>
    /\ ret = RetNone
    /\ last = Op("init", 0)
    /\ calls = NoCalls
    /\ pc = "local"
    /\ http = NoExchange

NextDecode ==
    \/ \E children \in KindLists(MaxRootChildren) : Decode(children)
    \/ last.op = "Unmarshal" /\ ReturnOutput

SpecDecode == InitDecode /\ [][NextDecode]_vars

(***************************************************************************)
(* Envelopes written as struct literals, as the tests of transform_test.go *)
(* do, decorated with AddDisplayInformation and AddProperty and encoded.   *)
(***************************************************************************)
LiteralEntities ==
    {[Type |-> <<"type">>, Genealogy |-> g, Value |-> v, Weight |-> w,
      Info |-> Nil, IconURL |-> u, Fields |-> Nil] :
        g \in {Nil, Ref([Name |-> <<"maltego.DNSName">>, OldName |-> <<"DNSName">>])},
        v \in {<<>>, <<"value">>}, w \in {<<>>, <<"10">>},
        u \in {<<>>, <<"http://asdf.com">>}}

\* Envelopes around the entity heap[1]: each payload absent or present.
LiteralTransforms ==
    {[ResponseMessage |-> r, ExceptionMessage |-> x, RequestMessage |-> q] :
        r \in {Nil, Ref([Entities |-> <<1>>, UIMessages |-> <<>>])},
        x \in {Nil, Ref([Exceptions |-> <<[Text |-> <<"oops">>,
                                           Code |-> <<"errorCode">>]>>])},
        q \in {Nil, Ref([Entities |-> <<>>,
                         Limits |-> [HardLimit |-> <<>>, SoftLimit |-> <<>>],
                         TransformFields |-> <<>>])}}

LabelArgs ==
    {[text |-> <<"name">>, name |-> <<"text">>],
     [text |-> <<"<", "b", ">", "&", "]", "]", ">">>, name |-> <<"text2">>]}

InitEncode ==
    /\ escapeIn = <<>>
    /\ escapeOut = Nil
    /\ wire = <<>>
    /\ args = <<>>
    /\ lt = Nil
    /\ stdout = <<>>
    /\ exitCode = Nil
    /\ transforms = <<>>
    /\ util = NoUtil
    /\ tr \in LiteralTransforms
    /\ heap \in {<<e>> : e \in LiteralEntities}
    /\ ret = RetNone
    /\ last = Op("init", 0)
    /\ calls = [NoCalls EXCEPT !.entity =
                    <<[via |-> "literal", typ |-> heap[1].Type, value |-> heap[1].Value,
                       props |-> <<>>, at |-> 0]>>]
    /\ pc = "local"
    /\ http = NoExchange

NextEncode ==
    \/ \E a \in LabelArgs : AddDisplayInformation(1, a.text, a.name)
    \/ AddProperty(1, <<"fqdn">>, <<"Display Name">>, <<"strict">>, <<"a", "&", "<">>)
    \/ ReturnOutput

SpecEncode == InitEncode /\ [][NextEncode]_vars

(***************************************************************************)
(* What a reader of a wire text sees: the element tree of the decoder.     *)
(***************************************************************************)
PayloadNames ==
    {"MaltegoTransformRequestMessage", "MaltegoTransformResponseMessage",
     "MaltegoTransformExceptionMessage"}

\* d: the decoding of text.  The whole text is one element.
WellFormed(text, d) == d.ok /\ d.next = Len(text) + 1

\* The number of payload children of the root of a decoded text.
PayloadCount(d) ==
    IF d.ok /\ d.node.name = "MaltegoMessage"
    THEN Len(SelectSeq(d.node.kids, LAMBDA k : k.name \in PayloadNames))
    ELSE 0

NamesOf(nodes) == [i \in 1..Len(nodes) |-> nodes[i].name]

(***************************************************************************)
(* C1                                                                      *)
(***************************************************************************)
\* C1, as stated: on a Transform that starts empty, after any sequence of
\* AddEntity, AddUIMessage, AddException, ReturnOutput and ThrowExceptions,
\* ResponseMessage and ExceptionMessage are never both populated.
C1_NeverBothPayloads ==
    pc = "local" => ~(tr.ResponseMessage # Nil /\ tr.ExceptionMessage # Nil)

\* C1, amended: ThrowExceptions leaves ResponseMessage unset, so the two
\* payloads are never both populated right after it; on a Transform that
\* starts empty they are both populated only when AddException was called
\* and AddEntity or AddUIMessage was called, and the exception payload is
\* populated exactly when AddException was called.
C1_ThrowClearsResponse ==
    /\ last.op = "ThrowExceptions" => tr.ResponseMessage = Nil
    /\ pc = "local" =>
          /\ (tr.ExceptionMessage # Nil) = (calls.AddException # <<>>)
          /\ tr.ResponseMessage # Nil =>
                 calls.AddEntity # <<>> \/ calls.AddUIMessage # <<>>

\* ThrowExceptions called on an envelope that held entities and exceptions.
C1_Witness ==
    /\ pc = "local"
    /\ last.op = "ThrowExceptions"
    /\ calls.AddEntity # <<>>
    /\ calls.AddException # <<>>
    /\ tr.ResponseMessage = Nil
    /\ tr.ExceptionMessage # Nil

(***************************************************************************)
(* C2                                                                      *)
(***************************************************************************)
\* C2: the response body MakeHandler writes for an envelope decoded from a
\* request and populated by the handler has exactly one of the request,
\* response and exception messages as child of the MaltegoMessage root.
C2_HandlerBodyHasOnePayload ==
    pc = "responded" /\ http.handlerRuns = 1 /\ http.body # <<>> =>
        PayloadCount(ParseDocument(http.body, 1)) = 1

(***************************************************************************)
(* C3                                                                      *)
(***************************************************************************)
\* xs: Exception elements; made: the AddException calls.
ExceptionsMatch(xs, made) ==
    /\ Len(xs) = Len(made)
    /\ \A i \in 1..Len(xs) :
          /\ xs[i].name = "Exception"
          /\ xs[i].attrs = <<[name |-> "code", value |-> made[i].code]>>
          /\ xs[i].text = made[i].exceptionString
          /\ xs[i].kids = <<>>

SoleExceptionMessage(d, made) ==
    /\ d.ok
    /\ d.node.name = "MaltegoMessage"
    /\ NamesOf(d.node.kids) = <<"MaltegoTransformExceptionMessage">>
    /\ NamesOf(d.node.kids[1].kids) = <<"Exceptions">>
    /\ ExceptionsMatch(d.node.kids[1].kids[1].kids, made)

C4_NilFieldsGiveEmptyString ==
    last.op = "GetFieldByName" /\ heap[last.h].Fields = Nil => ret = RetString(<<>>)

(***************************************************************************)
(* C5                                                                      *)
(***************************************************************************)
\* The Entity elements of the response message of a decoded text.
ResponseEntities(d) ==
    Kids(Kids(SelectKids(d.node, "MaltegoTransformResponseMessage"), "Entities"), "Entity")

\* n: an Entity element; c: the calls that made the entity.  The element
\* holds the children the calls made and nothing else.
EntityShape(n, c) ==
    /\ n.name = "Entity"
    /\ Len(n.attrs) = 1
    /\ NamesOf(n.kids) = IF c.props = <<>> THEN <<"Value", "Weight">>
                         ELSE <<"Value", "Weight", "AdditionalFields">>
    /\ n.kids[1].kids = <<>>
    /\ n.kids[2].kids = <<>>
    /\ c.props # <<>> =>
          /\ NamesOf(n.kids[3].kids) = [j \in 1..Len(c.props) |-> "Field"]
          /\ \A j \in 1..Len(c.props) :
                 n.kids[3].kids[j].kids = <<>> /\ Len(n.kids[3].kids[j].attrs) = 3

\* d: a decoded text; made: the handles AddEntity returned.
OnlyCalledElements(d, made) ==
    IF made = <<>> THEN d.node.kids = <<>>
    ELSE /\ NamesOf(d.node.kids) = <<"MaltegoTransformResponseMessage">>
         /\ NamesOf(d.node.kids[1].kids) = <<"Entities", "UIMessages">>
         /\ d.node.kids[1].kids[2].kids = <<>>
         /\ Len(d.node.kids[1].kids[1].kids) = Len(made)
         /\ \A i \in 1..Len(made) :
                EntityShape(d.node.kids[1].kids[1].kids[i], calls.entity[made[i]])

WellFormedOutput(text, d) == WellFormed(text, d) /\ OnlyCalledElements(d, calls.AddEntity)

\* C5: whatever values were passed to AddEntity and AddProperty (&, <, >,
\* quotes and newlines included), the text ReturnOutput returns is
\* well-formed XML whose elements are those the calls made: no value opens
\* or closes an element or an entity.
C5_OutputIsWellFormed ==
    last.op = "ReturnOutput" => WellFormedOutput(ret.text, ParseDocument(ret.text, 1))

HasMarkup(v) == \E i \in 1..Len(v) : v[i] \in {"&", "<", ">", "\"", "\n"}

\* ReturnOutput on an entity and a property whose values hold markup.
C5_Witness ==
    /\ last.op = "ReturnOutput"
    /\ \E i \in 1..Len(calls.AddEntity) :
          /\ HasMarkup(calls.entity[calls.AddEntity[i]].value)
          /\ calls.entity[calls.AddEntity[i]].props # <<>>
          /\ HasMarkup(calls.entity[calls.AddEntity[i]].props[1].value)
          /\ "<" \in {calls.entity[calls.AddEntity[i]].value[k] :
                         k \in 1..Len(calls.entity[calls.AddEntity[i]].value)}

(***************************************************************************)
(* C6                                                                      *)
(***************************************************************************)
\* e: a decoded entity; c: the calls that made it.
SameAsBuilt(e, c) ==
    /\ e.Type = c.typ
    /\ e.Value = c.value
    /\ IF c.props = <<>> THEN e.Fields = Nil
       ELSE /\ e.Fields # Nil
            /\ [j \in 1..Len(e.Fields[1]) |->
                    [name |-> e.Fields[1][j].Name, value |-> e.Fields[1][j].Text]]
               = c.props

\* u: the output decoded again; made: the handles AddEntity returned.
RoundTrip(u, made) ==
    /\ u.ok
    /\ made # <<>> =>
          /\ u.ResponseMessage # Nil
          /\ Len(u.ResponseMessage[1].Entities) = Len(made)
          /\ \A i \in 1..Len(made) :
                 SameAsBuilt(u.ResponseMessage[1].Entities[i], calls.entity[made[i]])

\* C6: an entity built with AddEntity(Type, Value) and AddProperty(name,
\* displayName, rule, text), rendered by ReturnOutput and decoded again,
\* has the same Type, the same Value and the same field name/text pairs.
C6_RoundTripPreservesEntity ==
    last.op = "ReturnOutput" => RoundTrip(Unmarshal(ret.text), calls.AddEntity)

(***************************************************************************)
(* C7                                                                      *)
(***************************************************************************)
\* The text EscapeText gives for the values of the model, written out.
Escaped(v) ==
    CASE v = <<"a", "&", "<">> -> <<"a", "&", "a", "m", "p", ";", "&", "l", "t", ";">>
      [] v = <<"\"", "\n", ">">> ->
             <<"&", "#", "3", "4", ";", "\n", "&", "g", "t", ";">>
      [] OTHER -> v

\* n: an Entity element; c: the AddEntity call.
EntityRendered(n, c) ==
    /\ n.attrs = <<[name |-> "Type", value |-> c.typ]>>
    /\ Len(SelectKids(n, "Value")) = 1
    /\ SelectKids(n, "Value")[1].text = EscapeText(c.value)
    /\ SelectKids(n, "Value")[1].text = Escaped(c.value)
    /\ Len(SelectKids(n, "Weight")) = 1
    /\ SelectKids(n, "Weight")[1].text = <<"100">>

EntitiesRendered(d, made) ==
    /\ d.ok
    /\ Len(ResponseEntities(d)) = Len(made)
    /\ \A i \in 1..Len(made) :
          EntityRendered(ResponseEntities(d)[i], calls.entity[made[i]])

\* C7: for every entity added with AddEntity(type, value) the text
\* ReturnOutput returns holds one Entity element with attribute Type equal
\* to type, a Value child whose text is EscapeText(value) and a Weight child
\* whose text is "100".
C7_EntityRendering ==
    last.op = "ReturnOutput" =>
        EntitiesRendered(ParseDocument(ret.text, 1), calls.AddEntity)

\* ReturnOutput after two AddEntity calls, one with a value escaping changes.
C7_Witness ==
    /\ last.op = "ReturnOutput"
    /\ Len(calls.AddEntity) = 2
    /\ calls.entity[calls.AddEntity[1]].value # calls.entity[calls.AddEntity[2]].value
    /\ EscapeText(calls.entity[calls.AddEntity[2]].value)
          # calls.entity[calls.AddEntity[2]].value

(***************************************************************************)
(* C8                                                                      *)
(***************************************************************************)
\* ms: UIMessage elements; made: the AddUIMessage calls.
UIMessagesMatch(ms, made) ==
    /\ Len(ms) = Len(made)
    /\ \A i \in 1..Len(ms) :
          /\ ms[i].name = "UIMessage"
          /\ ms[i].attrs = <<[name |-> "MessageType", value |-> made[i].messageType]>>
          /\ ms[i].text = made[i].message
          /\ ms[i].kids = <<>>

\* es: Entity elements; made: the handles AddEntity returned.
EntitiesMatch(es, made) ==
    /\ Len(es) = Len(made)
    /\ \A i \in 1..Len(es) :
          /\ es[i].name = "Entity"
          /\ es[i].attrs = <<[name |-> "Type", value |-> calls.entity[made[i]].typ]>>
          /\ NamesOf(es[i].kids) = <<"Value", "Weight">>
          /\ es[i].kids[1].text = Escaped(calls.entity[made[i]].value)

SingleResponse(d) ==
    /\ d.ok
    /\ d.node.name = "MaltegoMessage"
    /\ NamesOf(d.node.kids) = <<"MaltegoTransformResponseMessage">>
    /\ NamesOf(d.node.kids[1].kids) = <<"Entities", "UIMessages">>
    /\ EntitiesMatch(d.node.kids[1].kids[1].kids, calls.AddEntity)
    /\ UIMessagesMatch(d.node.kids[1].kids[2].kids, calls.AddUIMessage)

\* Only AddEntity and AddUIMessage were called, and at least one of them.
OnlyEntitiesAndUIMessages ==
    /\ pc = "local"
    /\ calls.AddException = <<>>
    /\ ~calls.ThrowExceptions
    /\ calls.AddEntity # <<>> \/ calls.AddUIMessage # <<>>

\* C8: after AddEntity and AddUIMessage calls mixed in any order on an
\* empty envelope, ReturnOutput renders a single
\* MaltegoTransformResponseMessage: an Entities element with one Entity per
\* AddEntity call in call order, then a UIMessages element with one
\* UIMessage per AddUIMessage call in call order, MessageType as attribute
\* and the text as content.
C8_ResponseKeepsCallOrder ==
    last.op = "ReturnOutput" /\ OnlyEntitiesAndUIMessages =>
        SingleResponse(ParseDocument(ret.text, 1))

\* ReturnOutput after AddUIMessage, AddEntity, AddUIMessage in that order,
\* the two messages different.
C8_Witness ==
    /\ last.op = "ReturnOutput"
    /\ OnlyEntitiesAndUIMessages
    /\ Len(calls.AddEntity) = 1
    /\ Len(calls.AddUIMessage) = 2
    /\ calls.AddUIMessage[1].at = 1
    /\ calls.entity[calls.AddEntity[1]].at = 2
    /\ calls.AddUIMessage[1].message # calls.AddUIMessage[2].message

(***************************************************************************)
(* C9                                                                      *)
(***************************************************************************)
\* C9, as stated: every entity made by NewEntity or by AddEntity from a
\* value v holds EscapeText(v) as its Value.
C9_ValueAlwaysEscaped ==
    \A h \in 1..Len(heap) :
        calls.entity[h].via \in {"NewEntity", "AddEntity"} =>
            heap[h].Value = EscapeText(calls.entity[h].value)

\* C9, amended: an entity made by AddEntity from a value v holds
\* EscapeText(v) as its Value; an entity made by NewEntity holds v as given.
C9_AddEntityEscapesNewEntityKeeps ==
    \A h \in 1..Len(heap) :
        /\ calls.entity[h].via = "AddEntity" =>
               /\ heap[h].Value = EscapeText(calls.entity[h].value)
               /\ heap[h].Value = Escaped(calls.entity[h].value)
        /\ calls.entity[h].via = "NewEntity" => heap[h].Value = calls.entity[h].value

\* Both ways of making an entity, used on a value escaping changes.
C9_Witness ==
    \E g, h \in 1..Len(heap) :
        /\ calls.entity[g].via = "NewEntity"
        /\ calls.entity[h].via = "AddEntity"
        /\ calls.entity[g].value = calls.entity[h].value
        /\ EscapeText(calls.entity[h].value) # calls.entity[h].value
        /\ heap[g].Value # heap[h].Value

(***************************************************************************)
(* C10                                                                     *)
(***************************************************************************)
\* The escaping of one character with the line feed left as it is.
EscapeCharKeepingNewline(c) == IF c = "\n" THEN <<"\n">> ELSE XmlEscapeChar(c)

\* out: what EscapeText returned for in.
EscapedKeepingNewlines(in, out) ==
    /\ out = Flatten([i \in 1..Len(in) |-> EscapeCharKeepingNewline(in[i])])
    /\ ~Contains(out, escNL)
    /\ Count(out, "\n") = Count(in, "\n")
    /\ in = <<"\n">> => out = <<"\n">>
    /\ in = escNL => out = <<"&", "a", "m", "p", ";", "#", "x", "A", ";">>

\* C10: EscapeText(text) is the XML escaping of text with every "&#xA;" the
\* escaping produced replaced by a newline, the replacement made after the
\* escaping: EscapeText("\n") is a newline, the result never holds "&#xA;",
\* and an "&#xA;" typed in the argument is not turned into a newline.
C10_EscapeThenNewlines ==
    escapeOut # Nil => EscapedKeepingNewlines(escapeIn, escapeOut[1])

\* EscapeText called on a text with a newline and a typed "&#xA;".
C10_Witness ==
    /\ escapeOut # Nil
    /\ Contains(escapeIn, escNL)
    /\ Contains(escapeIn, <<"\n">>)

(***************************************************************************)
(* C11                                                                     *)
(***************************************************************************)
\* The payload elements the envelope t holds, in the order of its fields.
PresentPayloads(t) ==
    (IF t.ResponseMessage = Nil THEN <<>> ELSE <<"MaltegoTransformResponseMessage">>)
    \o (IF t.ExceptionMessage = Nil THEN <<>> ELSE <<"MaltegoTransformExceptionMessage">>)
    \o (IF t.RequestMessage = Nil THEN <<>> ELSE <<"MaltegoTransformRequestMessage">>)

EmptyElement(name) == <<"<", name, ">", "<", "/", name, ">">>

\* n: the Entity element of the entity e.
ValueAndWeightWritten(text, n, e) ==
    /\ Len(SelectKids(n, "Value")) = 1
    /\ SelectKids(n, "Value")[1].text = e.Value
    /\ Len(SelectKids(n, "Weight")) = 1
    /\ SelectKids(n, "Weight")[1].text = e.Weight
    /\ e.Value = <<>> => Contains(text, EmptyElement("Value"))
    /\ e.Weight = <<>> => Contains(text, EmptyElement("Weight"))

EmptyKeptAbsentOmitted(text, d) ==
    /\ WellFormed(text, d)
    /\ NamesOf(d.node.kids) = PresentPayloads(tr)
    /\ tr.ResponseMessage # Nil =>
          /\ Len(ResponseEntities(d)) = 1
          /\ ValueAndWeightWritten(text, ResponseEntities(d)[1], heap[1])

\* C11: an encoded entity whose Value or Weight is the empty string still
\* has its Value and Weight elements, empty; a payload of the envelope that
\* is nil (ResponseMessage, ExceptionMessage, RequestMessage) writes nothing.
C11_EmptyStringsKeptNilPayloadsOmitted ==
    last.op = "ReturnOutput" => EmptyKeptAbsentOmitted(ret.text, ParseDocument(ret.text, 1))

\* A response alone, its entity with neither Value nor Weight, encoded.
C11_Witness ==
    /\ last.op = "ReturnOutput"
    /\ heap[1].Value = <<>>
    /\ heap[1].Weight = <<>>
    /\ tr.ResponseMessage # Nil
    /\ tr.ExceptionMessage = Nil
    /\ tr.RequestMessage = Nil

(***************************************************************************)
(* C12                                                                     *)
(***************************************************************************)
\* The entities and limits each request of the model was written with.
SentFirst ==
    [Type |-> <<"DNSName">>,
     Genealogy |-> Ref([Name |-> <<"maltego.DNSName">>, OldName |-> <<"DNSName">>]),
     Value |-> <<"alpine.paterva.com">>, Weight |-> <<"0">>, Info |-> Nil,
     IconURL |-> <<>>,
     Fields |-> Ref(<<[Text |-> <<"alpine.paterva.com">>, MatchingRule |-> <<>>,
                       Name |-> <<"fqdn">>, DisplayName |-> <<"DNS Name">>]>>)]

SentSecond ==
    [Type |-> <<"maltego.IPv4Address">>, Genealogy |-> Nil,
     Value |-> <<"173.230.156.137">>, Weight |-> <<"100">>, Info |-> Nil,
     IconURL |-> <<>>, Fields |-> Nil]

SentEscaped ==
    [Type |-> <<"a", "&", "b">>, Genealogy |-> Nil, Value |-> <<"x", "<", "y">>,
     Weight |-> <<>>, Info |-> Nil, IconURL |-> <<>>, Fields |-> Nil]

SentEntities(kind) ==
    CASE kind = "request1" -> <<SentFirst>>
      [] kind = "request2" -> <<SentFirst, SentSecond>>
      [] kind = "request0" -> <<>>
      [] kind = "requestEscaped" -> <<SentEscaped>>

SentLimits(kind) ==
    IF kind = "requestEscaped" THEN [HardLimit |-> <<"255">>, SoftLimit |-> <<"12">>]
    ELSE [HardLimit |-> <<"256">>, SoftLimit |-> <<"256">>]

OnlyRequestDecoded(kind) ==
    /\ ret = RetNone
    /\ tr.ResponseMessage = Nil
    /\ tr.ExceptionMessage = Nil
    /\ tr.RequestMessage # Nil
    /\ [i \in 1..Len(tr.RequestMessage[1].Entities) |->
            heap[tr.RequestMessage[1].Entities[i]]] = SentEntities(kind)
    /\ tr.RequestMessage[1].Limits = SentLimits(kind)
    /\ tr.RequestMessage[1].TransformFields = <<>>

\* C12: decoding a message whose root holds only a
\* MaltegoTransformRequestMessage populates the request payload alone:
\* ResponseMessage and ExceptionMessage stay nil, and the request holds its
\* entities in document order with Type, Value, Weight, Genealogy and
\* AdditionalFields as sent, and the SoftLimit and HardLimit of Limits.
C12_RequestDecodedAsSent ==
    last.op = "Unmarshal" /\ Len(last.children) = 1 /\ last.children[1] \in RequestKinds =>
        OnlyRequestDecoded(last.children[1])

\* A request with two entities was decoded.
C12_Witness ==
    /\ last.op = "Unmarshal"
    /\ last.children = <<"request2">>
    /\ tr.RequestMessage # Nil
    /\ Len(heap) = 2

(***************************************************************************)
(* C13                                                                     *)
(***************************************************************************)
PopulatedPayloads(t) ==
    (IF t.ResponseMessage = Nil THEN 0 ELSE 1) + (IF t.ExceptionMessage = Nil THEN 0 ELSE 1)
    + (IF t.RequestMessage = Nil THEN 0 ELSE 1)

\* C13: decoding any message, one with several payload elements under the
\* root included, populates at most one of RequestMessage, ResponseMessage
\* and ExceptionMessage, and a root child with an unknown name is ignored
\* without error.
C13_AtMostOnePayloadDecoded ==
    last.op = "Unmarshal" => ret = RetNone /\ PopulatedPayloads(tr) <= 1

(***************************************************************************)
(* C14                                                                     *)
(***************************************************************************)
\* hits: the ranks of the AddProperty calls made with the name.
TextOfEarliest(props, hits) ==
    IF hits = {} THEN <<>>
    ELSE Escaped(props[CHOOSE j \in hits : \A k \in hits : j <= k].value)

\* C14: GetFieldByName(name) on an entity with fields returns the text of
\* the first field appended with that name, never that of a later one, and
\* the empty string when no field has the name.
C14_FirstFieldWithNameReturned ==
    last.op = "GetFieldByName" /\ heap[last.h].Fields # Nil =>
        ret = RetString(TextOfEarliest(calls.entity[last.h].props,
                            {j \in 1..Len(calls.entity[last.h].props) :
                                calls.entity[last.h].props[j].name = last.name}))

\* Two fields with the name looked up and different texts.
C14_Witness ==
    /\ last.op = "GetFieldByName"
    /\ Len(calls.entity[last.h].props) = 2
    /\ calls.entity[last.h].props[1].name = last.name
    /\ calls.entity[last.h].props[2].name = last.name
    /\ calls.entity[last.h].props[1].value # calls.entity[last.h].props[2].value
    /\ ret.kind = "string"

(***************************************************************************)
(* C15                                                                     *)
(***************************************************************************)
\* props: the calls that set a property on the entity e, in call order.
FieldsMirrorCalls(e, props) ==
    /\ e.Fields = Nil <=> props = <<>>
    /\ e.Fields # Nil =>
          /\ Len(e.Fields[1]) = Len(props)
          /\ \A i \in 1..Len(props) :
                /\ e.Fields[1][i].Name = props[i].name
                /\ e.Fields[1][i].Text = Escaped(props[i].value)

EarlierFieldsKept ==
    \A h \in 1..Len(heap) :
        heap[h].Fields # Nil =>
            /\ heap'[h].Fields # Nil
            /\ Len(heap'[h].Fields[1]) >= Len(heap[h].Fields[1])
            /\ SubSeq(heap'[h].Fields[1], 1, Len(heap[h].Fields[1])) = heap[h].Fields[1]

\* C15: after n calls of AddProperty, AddProp and the setters on an entity
\* its field collection holds n items, the i-th with the name and the
\* escaped value of the i-th call, also when names repeat; and no step
\* changes or removes a field that is already there.
C15_OneFieldPerCallInCallOrder ==
    /\ [](\A h \in 1..Len(heap) : FieldsMirrorCalls(heap[h], calls.entity[h].props))
    /\ [][EarlierFieldsKept]_vars

\* Two fields of one name with different texts, the second value escaped.
C15_Witness ==
    \E h \in 1..Len(heap) :
        /\ heap[h].Fields # Nil
        /\ Len(heap[h].Fields[1]) = 2
        /\ heap[h].Fields[1][1].Name = heap[h].Fields[1][2].Name
        /\ heap[h].Fields[1][1].Text = <<"value">>
        /\ heap[h].Fields[1][2].Text = <<"a", "&", "a", "m", "p", ";", "&", "l", "t", ";">>

(***************************************************************************)
(* C16                                                                     *)
(***************************************************************************)
\* The heap after AddProperty(fieldName, displayName, matchingRule, value)
\* on entity h of the heap hp.
AfterAddProperty(hp, h, fieldName, displayName, matchingRule, value) ==
    [hp EXCEPT ![h] =
        AppendField(@, PropertyField(fieldName, displayName, matchingRule, value))]

\* Title(name) and the decimal text of thick for the names and numbers of
\* the model, written out.
TitleOf(name) ==
    CASE name = <<"f", "q", "d", "n">> -> <<"F", "q", "d", "n">>
      [] name = <<"i", "p", ".", "v", "4">> -> <<"I", "p", ".", "V", "4">>

DecimalText(thick) ==
    CASE thick = 0 - 7 -> <<"-", "7">>
      [] thick = 0 -> <<"0">>
      [] thick = 12 -> <<"1", "2">>

Setters ==
    {"AddProp", "SetLinkColor", "SetLinkStyle", "SetLinkThickness", "SetLinkLabel",
     "SetBookmark", "SetNote", "SetLinkDirection"}

\* l: the setter called and its arguments.
AsAddProperty(hp, l) ==
    CASE l.op = "AddProp" ->
             AfterAddProperty(hp, l.h, l.name, TitleOf(l.name), <<"strict">>, l.value)
      [] l.op = "SetLinkColor" ->
             AfterAddProperty(hp, l.h, <<"link#maltego.link.color">>, <<"LinkColor">>,
                              <<"loose">>, l.value)
      [] l.op = "SetLinkStyle" ->
             AfterAddProperty(hp, l.h, <<"link#maltego.link.style">>, <<"LinkStyle">>,
                              <<"loose">>, l.value)
      [] l.op = "SetLinkThickness" ->
             AfterAddProperty(hp, l.h, <<"link#maltego.link.thickness">>,
                              <<"LinkThickness">>, <<"loose">>, DecimalText(l.thick))
      [] l.op = "SetLinkLabel" ->
             AfterAddProperty(hp, l.h, <<"link#maltego.link.label">>, <<"Label">>,
                              <<"loose">>, l.value)
      [] l.op = "SetBookmark" ->
             AfterAddProperty(hp, l.h, <<"bookmark#">>, <<"Bookmark">>, <<"loose">>, l.value)
      [] l.op = "SetNote" ->
             AfterAddProperty(hp, l.h, <<"notes#">>, <<"Notes">>, <<"loose">>, l.value)
      [] l.op = "SetLinkDirection" ->
             AfterAddProperty(hp, l.h, <<"link#maltego.link.direction">>, <<"Direction">>,
                              <<"loose">>, l.value)

\* C16: a call of AddProp or of a setter leaves the entities as the
\* AddProperty call with the setter's fixed field name, display name and
\* matching rule leaves them: AddProp(name, v) as AddProperty(name,
\* Title(name), "strict", v), SetLinkThickness with the decimal text of its
\* number, the other setters with their argument, all with rule "loose".
C16_SettersAreAddPropertyCalls ==
    [][last'.op \in Setters => heap' = AsAddProperty(heap, last')]_vars

\* SetLinkThickness(-7) on an entity whose first field AddProp("ip.v4", v)
\* made.
C16_Witness ==
    /\ last.op = "SetLinkThickness"
    /\ last.thick = 0 - 7
    /\ Len(heap[last.h].Fields[1]) = 2
    /\ heap[last.h].Fields[1][1].DisplayName = <<"I", "p", ".", "V", "4">>
    /\ heap[last.h].Fields[1][1].MatchingRule = <<"strict">>
    /\ heap[last.h].Fields[1][2] =
           [Text |-> <<"-", "7">>, MatchingRule |-> <<"loose">>,
            Name |-> <<"link#maltego.link.thickness">>,
            DisplayName |-> <<"LinkThickness">>]

(***************************************************************************)
(* C17                                                                     *)
(***************************************************************************)
\* The children the entity e is to have apart from Genealogy; labels: the
\* AddDisplayInformation calls made on it.
ChildrenInOrder(e, labels) ==
    <<"Value", "Weight">>
    \o (IF labels # <<>> THEN <<"DisplayInformation">> ELSE <<>>)
    \o (IF e.IconURL # <<>> THEN <<"IconURL">> ELSE <<>>)
    \o (IF e.Fields # Nil THEN <<"AdditionalFields">> ELSE <<>>)

NotGenealogy(name) == name # "Genealogy"

\* The CDATA section of a label text, written out for the texts of the model.
SectionOf(t) ==
    IF t = <<"<", "b", ">", "&", "]", "]", ">">>
    THEN cdataStart \o <<"<", "b", ">", "&", "]", "]">> \o cdataEnd
             \o cdataStart \o <<">">> \o cdataEnd
    ELSE cdataStart \o t \o cdataEnd

\* n: a Label element; c: the AddDisplayInformation call.
LabelWritten(text, n, c) ==
    /\ n.name = "Label"
    /\ n.attrs = <<[name |-> "Name", value |-> c.name],
                   [name |-> "Type", value |-> <<"text/html">>]>>
    /\ n.text = c.text
    /\ Contains(text, <<">">> \o SectionOf(c.text) \o <<"<", "/", "Label", ">">>)

\* n: the Entity element of the entity e.
ChildrenAndLabelsWritten(text, n, e, labels) ==
    /\ SelectSeq(NamesOf(n.kids), NotGenealogy) = ChildrenInOrder(e, labels)
    /\ e.Genealogy # Nil => NamesOf(n.kids)[1] = "Genealogy"
    /\ e.Info = Nil <=> labels = <<>>
    /\ Len(Kids(SelectKids(n, "DisplayInformation"), "Label")) = Len(labels)
    /\ \A i \in 1..Len(labels) :
          LabelWritten(text, Kids(SelectKids(n, "DisplayInformation"), "Label")[i], labels[i])

\* C17: the children of an encoded Entity are Value, Weight,
\* DisplayInformation, IconURL, AdditionalFields in this order, the last
\* three present exactly when set (a Genealogy, when set, comes before
\* them); DisplayInformation exists from the first AddDisplayInformation
\* call on and holds one Label per call, in call order, with the Name
\* given, Type "text/html" and the text in a CDATA section.
C17_EntityChildrenAndLabels ==
    last.op = "ReturnOutput" /\ tr.ResponseMessage # Nil =>
        /\ Len(ResponseEntities(ParseDocument(ret.text, 1))) = 1
        /\ ChildrenAndLabelsWritten(ret.text, ResponseEntities(ParseDocument(ret.text, 1))[1],
                                    heap[1], calls.AddDisplayInformation)

\* An entity with an icon, a property and two different labels, encoded.
C17_Witness ==
    /\ last.op = "ReturnOutput"
    /\ tr.ResponseMessage # Nil
    /\ heap[1].IconURL # <<>>
    /\ heap[1].Fields # Nil
    /\ Len(calls.AddDisplayInformation) = 2
    /\ calls.AddDisplayInformation[1].text # calls.AddDisplayInformation[2].text
    /\ calls.AddDisplayInformation[2].text = <<"name">>

(***************************************************************************)
(* C18                                                                     *)
(***************************************************************************)
\* C18: called with fewer than 2 arguments ParseLocalArguments ends the
\* process and returns nothing; called with 2 or more it returns a
\* LocalTransform and the process goes on.
C18_FatalBelowTwoArguments ==
    last.op = "ParseLocalArguments" =>
        IF Len(args) < 2 THEN pc = "exited" /\ lt = Nil
        ELSE pc = "local" /\ lt # Nil

\* A call with the primary value alone.
C18_Witness ==
    /\ last.op = "ParseLocalArguments"
    /\ Len(args) = 1
    /\ pc = "exited"

(***************************************************************************)
(* C19                                                                     *)
(***************************************************************************)
\* The argument a with its newlines turned into spaces.
Spaced(a) == [i \in 1..Len(a) |-> IF a[i] = "\n" THEN " " ELSE a[i]]

\* The places where a chunk of a ends: each "#" and the end of a.
ChunkEnds(a) == {i \in 1..Len(a) : a[i] = "#"} \cup {Len(a) + 1}

\* The chunk of a that starts behind place b (0, or the place of a "#").
ChunkBehind(a, b) ==
    SubSeq(a, b + 1, (CHOOSE e \in ChunkEnds(a) :
                          e > b /\ \A x \in ChunkEnds(a) : x > b => e <= x) - 1)

\* The places chunks of a start behind: its start and each "#"; an empty
\* argument has no chunk.
ChunkStarts(a) == IF a = <<>> THEN {} ELSE {0} \cup {i \in 1..Len(a) : a[i] = "#"}

\* The chunks of the arguments rest: <<j, b>> is the chunk of rest[j] that
\* starts behind place b.
ChunkPlaces(rest) ==
    UNION {{<<j, b>> : b \in ChunkStarts(rest[j])} : j \in 1..Len(rest)}

ChunkOf(rest, p) == ChunkBehind(Spaced(rest[p[1]]), p[2])

Later(p, q) == p[1] > q[1] \/ (p[1] = q[1] /\ p[2] > q[2])

KeyOf(c) == IF Contains(c, <<"=">>) THEN SubSeq(c, 1, FindFrom(c, 1, <<"=">>) - 1) ELSE c

AfterFirstEquals(c) ==
    IF Contains(c, <<"=">>) THEN SubSeq(c, FindFrom(c, 1, <<"=">>) + 1, Len(c)) ELSE <<>>

\* v with every "&amp;" turned into "&" and every "\=" into "=".
Cleaned(v) ==
    Flatten([i \in 1..Len(v) |->
        IF HasPrefixAt(v, i, <<"&", "a", "m", "p", ";">>) THEN <<"&">>
        ELSE IF \E j \in 1..4 : i - j >= 1 /\ HasPrefixAt(v, i - j, <<"&", "a", "m", "p", ";">>)
             THEN <<>>
        ELSE IF HasPrefixAt(v, i, <<"\\", "=">>) THEN <<"=">>
        ELSE IF i > 1 /\ HasPrefixAt(v, i - 1, <<"\\", "=">>) THEN <<>>
        ELSE <<v[i]>>])

\* The last chunk of rest with the key k.
LastWithKey(rest, k) ==
    CHOOSE p \in ChunkPlaces(rest) :
        /\ KeyOf(ChunkOf(rest, p)) = k
        /\ \A q \in ChunkPlaces(rest) : KeyOf(ChunkOf(rest, q)) = k => ~Later(q, p)

\* The mapping the chunks of rest give: under each key the cleaned text
\* behind the first "=" of the last chunk with that key.
ValuesOfChunks(rest) ==
    [k \in {KeyOf(ChunkOf(rest, p)) : p \in ChunkPlaces(rest)} |->
        Cleaned(AfterFirstEquals(ChunkOf(rest, LastWithKey(rest, k))))]

\* C19: the LocalTransform returned holds the first argument as Value,
\* and Values maps, for every chunk between the "#" of the remaining
\* arguments (newlines read as spaces), the text before the chunk's first
\* "=" (the whole chunk when it has none), unchanged, to the text behind
\* that "=" (empty when it has none) with "&amp;" replaced by "&" and "\="
\* by "=", further "=" kept; a later chunk with the same key wins.
C19_KeysAndValuesOfChunks ==
    last.op = "ParseLocalArguments" /\ lt # Nil =>
        /\ lt[1].Value = args[1]
        /\ DOMAIN lt[1].Values = DOMAIN ValuesOfChunks(Tail(args))
        /\ \A k \in DOMAIN lt[1].Values : lt[1].Values[k] = ValuesOfChunks(Tail(args))[k]

\* The argument "&amp;=&amp;": the key keeps the entity, the value loses it.
C19_Witness ==
    /\ last.op = "ParseLocalArguments"
    /\ lt # Nil
    /\ args[2] = <<"&", "a", "m", "p", ";", "=", "&", "a", "m", "p", ";">>
    /\ DOMAIN lt[1].Values = {<<"&", "a", "m", "p", ";">>}
    /\ lt[1].Values[<<"&", "a", "m", "p", ";">>] = <<"&">>

(***************************************************************************)
(* C20                                                                     *)
(***************************************************************************)
NoNewline(s) == \A i \in 1..Len(s) : s[i] # "\n"

\* C20: neither the primary value nor a key or a value of the mapping
\* ParseLocalArguments returns holds a newline.
C20_NoNewlineInResult ==
    last.op = "ParseLocalArguments" /\ lt # Nil =>
        /\ NoNewline(lt[1].Value)
        /\ \A k \in DOMAIN lt[1].Values : NoNewline(k) /\ NoNewline(lt[1].Values[k])

(***************************************************************************)
(* C21                                                                     *)
(***************************************************************************)
UIMessagesOf(d) ==
    Kids(Kids(SelectKids(d.node, "MaltegoTransformResponseMessage"), "UIMessages"),
         "UIMessage")

\* d: the decoded line; the line is one envelope with one UI message.
OneFatalMessage(line, d, text) ==
    /\ WellFormed(line, d)
    /\ d.node.name = "MaltegoMessage"
    /\ NamesOf(d.node.kids) = <<"MaltegoTransformResponseMessage">>
    /\ Len(UIMessagesOf(d)) = 1
    /\ UIMessagesOf(d)[1].attrs = <<[name |-> "MessageType", value |-> <<"FatalError">>]>>
    /\ UIMessagesOf(d)[1].text = text

\* The output of Die(last.err, last.msg) is one line.
DiePrinted ==
    /\ stdout # <<>>
    /\ stdout[Len(stdout)] = "\n"
    /\ OneFatalMessage(SubSeq(stdout, 1, Len(stdout) - 1),
                       ParseDocument(SubSeq(stdout, 1, Len(stdout) - 1), 1),
                       last.msg \o <<":", " ">> \o last.err)

\* C21: once Die(err, msg) has ended the process the exit code is 0 and
\* the standard output holds one line, an envelope with exactly one UI
\* message, of type FatalError and with the text msg + ": " + err; the
\* line is there before the process ends, and the process ends with no
\* other code.
C21_DiePrintsThenExitsZero ==
    /\ [](pc = "dying" => exitCode = Nil /\ DiePrinted)
    /\ [](exitCode # Nil => exitCode = Ref(0) /\ pc = "exited" /\ DiePrinted)
    /\ [][exitCode # Nil => stdout' = stdout]_vars

\* Die("a&<", "failed to lookup address") has ended the process.
C21_Witness ==
    /\ pc = "exited"
    /\ exitCode = Ref(0)
    /\ last.op = "Die"
    /\ last.err = <<"a", "&", "<">>
    /\ last.msg = <<"failed to lookup address">>

(***************************************************************************)
(* C22                                                                     *)
(***************************************************************************)
\* u: the decoded body.  It is a request with exactly one entity.
OneEntityRequest(u) ==
    /\ u.ok
    /\ u.RequestMessage # Nil
    /\ Len(u.RequestMessage[1].Entities) = 1

\* The closure got as far as decoding the body wire.
BodyDecoded == last.op = "Serve" /\ last.method = "POST" /\ last.readOk /\ wire # <<>>

Refused ==
    /\ pc = "responded"
    /\ http.status = 400
    /\ http.handlerRuns = 0
    /\ ~Contains(http.body, <<"MaltegoMessage">>)
    /\ tr = EmptyTransform

\* C22: a POST body that fails to decode, or decodes to an envelope with no
\* request message, or to a request whose number of entities is not 1, is
\* answered with status 400, without a call of the user's handler and
\* without an envelope in the response; the user's handler runs only on a
\* request with exactly one entity.
C22_MalformedRequestRefused ==
    /\ BodyDecoded /\ ~OneEntityRequest(Unmarshal(wire)) => Refused
    /\ pc = "handler" \/ http.handlerRuns # 0 => http.handlerRuns = 1
    /\ last.op = "Serve" /\ http.handlerRuns # 0 => OneEntityRequest(Unmarshal(wire))
    /\ pc \in {"handler", "responded"} /\ http.handlerRuns # 0 =>
          tr.RequestMessage # Nil /\ Len(tr.RequestMessage[1].Entities) = 1

\* A request with two entities, refused.
C22_Witness ==
    /\ BodyDecoded
    /\ wire = RequestBody(RequestEntity \o RequestEntity)
    /\ Refused

(***************************************************************************)
(* C23                                                                     *)
(***************************************************************************)
\* d: the decoded response body.  The envelope tells of a failure.
CarriesFailure(d) ==
    \/ \E i \in 1..Len(UIMessagesOf(d)) :
           UIMessagesOf(d)[i].attrs = <<[name |-> "MessageType", value |-> <<"FatalError">>]>>
    \/ SelectKids(d.node, "MaltegoTransformExceptionMessage") # <<>>

FailureInsideEnvelope(status, body, d) ==
    /\ status = 200
    /\ WellFormed(body, d)
    /\ CarriesFailure(d)

\* C23: when the handler of a well-formed request comes back from a failed
\* lookup, the response MakeHandler completes has status 200 and its body
\* is one well-formed envelope that holds a FatalError UI message or an
\* exception message.
C23_FailedLookupInsideEnvelope ==
    [][pc = "returned" /\ pc' = "responded" =>
          FailureInsideEnvelope(http'.status, http'.body, ParseDocument(http'.body, 1))]_vars

(***************************************************************************)
(* C24                                                                     *)
(***************************************************************************)
\* C24: the response body MakeHandler writes for a handler that wrote
\* nothing itself is the text ReturnOutput returned, character for
\* character.
C24_BodyIsReturnOutput ==
    last.op = "HandlerReturn" /\ http.status = 200 /\ http.body # <<>> =>
        http.body = ret.text

(***************************************************************************)
(* C25                                                                     *)
(***************************************************************************)
\* The names before a step are the names after it, in place, with at most
\* one more name behind them.
GrownAtEnd(before, after) ==
    /\ Len(after) \in {Len(before), Len(before) + 1}
    /\ \A i \in 1..Len(before) : after[i] = before[i]

\* The page is the greeting followed by one line /run/<name> for each
\* registered name, in the order of the registry.
ListsRoutes(body, ts) ==
    /\ Len(body) = Len(Greeting) + 3 * Len(ts)
    /\ SubSeq(body, 1, Len(Greeting)) = Greeting
    /\ \A i \in 1..Len(ts) :
           SubSeq(body, Len(Greeting) + 3 * i - 2, Len(Greeting) + 3 * i)
               = <<"/run/", ts[i], "<br>">>

\* C25: every step keeps the registered names in place and adds at most one
\* name at the end, RegisterTransform(name) adds exactly that name, Home
\* leaves the registry as it is, and the page Home writes lists every
\* registered name as /run/<name> in registration order.
C25_RegistryAppendOnly ==
    /\ [][GrownAtEnd(transforms, transforms')]_vars
    /\ [][last'.op = "RegisterTransform" => Len(transforms') = Len(transforms) + 1]_vars
    /\ [][last'.op = "Home" => transforms' = transforms]_vars
    /\ [](last.op = "Home" => http.status = 200 /\ ListsRoutes(http.body, transforms))

C25_Witness ==
    /\ last.op = "Home"
    /\ Len(transforms) = 3
    /\ transforms[1] # transforms[2]
    /\ transforms[2] # transforms[3]

(***************************************************************************)
(* C26                                                                     *)
(***************************************************************************)
WithoutSpaces(s) == SelectSeq(s, LAMBDA c : c # " ")

\* The letter at place i of the name starts a word: it is uppercase and
\* follows a lowercase letter, or it follows an uppercase letter and is
\* followed by two or more lowercase letters or by one that is not the end
\* of the name nor followed by an uppercase letter.
StartsWord(in, i) ==
    /\ i > 1
    /\ IsUpper(in[i])
    /\ \/ IsLower(in[i - 1])
       \/ /\ IsUpper(in[i - 1])
          /\ i + 1 <= Len(in) /\ IsLower(in[i + 1])
          /\ i + 2 <= Len(in) /\ ~IsUpper(in[i + 2])

\* The place in the result of the letter at place i of the name.
PlaceOf(in, i) == i + Cardinality({j \in 1..i : StartsWord(in, j)})

SpacesBeforeWords(in, out) ==
    \A i \in 1..Len(in) :
        /\ PlaceOf(in, i) <= Len(out)
        /\ out[PlaceOf(in, i)] = in[i]
        /\ StartsWord(in, i) => out[PlaceOf(in, i) - 1] = " "
        /\ i > 1 /\ ~StartsWord(in, i) => out[PlaceOf(in, i) - 1] # " "

\* C26: the result without its spaces is the name followed by [NETCAP]; it
\* has no leading space and no two adjacent spaces; each letter of the name
\* that starts a word (an uppercase letter after a lowercase one, or the
\* uppercase letter after a run of uppercase letters that is followed by
\* more than a single trailing lowercase letter) has a space before it, the
\* other letters have none, and " [NETCAP]" follows the last letter.
C26_DisplayNameOnlyAddsSpaces ==
    util.op = "ToTransformDisplayName" =>
        /\ WithoutSpaces(util.out) = util.in \o <<"[NETCAP]">>
        /\ util.out[1] # " "
        /\ \A k \in 1..(Len(util.out) - 1) : ~(util.out[k] = " " /\ util.out[k + 1] = " ")
        /\ SpacesBeforeWords(util.in, util.out)
        /\ util.in # <<>> =>
               SubSeq(util.out, PlaceOf(util.in, Len(util.in)) + 1, Len(util.out))
                   = <<" ", "[NETCAP]">>

C26_Witness ==
    /\ util.op = "ToTransformDisplayName"
    /\ util.in = ToURLsForHost
    /\ util.out = <<"T", "o", " ", "U", "R", "L", "s", " ", "F", "o", "r", " ",
                    "H", "o", "s", "t", " ", "[NETCAP]">>

(***************************************************************************)
(* C27                                                                     *)
(***************************************************************************)
EntityNodesOf(d) ==
    Kids(Kids(SelectKids(d.node, "MaltegoTransformResponseMessage"), "Entities"), "Entity")

\* The last icon set through the handle h ("" when none was).
IconSet(sets, h) ==
    IF \E i \in 1..Len(sets) : sets[i].h = h
    THEN sets[CHOOSE i \in 1..Len(sets) :
                 sets[i].h = h /\ \A j \in (i + 1)..Len(sets) : sets[j].h # h].url
    ELSE <<>>

\* n: an Entity element; c: what was done through one handle (the value
\* given to AddEntity and the properties set), labels and icon likewise.
EntityShows(n, c, labels, icon) ==
    /\ LastText(SelectKids(n, "Value")) = c.value
    /\ Len(Kids(SelectKids(n, "AdditionalFields"), "Field")) = Len(c.props)
    /\ \A i \in 1..Len(c.props) :
          /\ AttrOf(<<Kids(SelectKids(n, "AdditionalFields"), "Field")[i]>>, "Name")
                 = c.props[i].name
          /\ Kids(SelectKids(n, "AdditionalFields"), "Field")[i].text = c.props[i].value
    /\ Len(Kids(SelectKids(n, "DisplayInformation"), "Label")) = Len(labels)
    /\ \A i \in 1..Len(labels) :
          Kids(SelectKids(n, "DisplayInformation"), "Label")[i].text = labels[i].text
    /\ LastText(SelectKids(n, "IconURL")) = icon

LabelsThrough(h) == SelectSeq(calls.AddDisplayInformation, LAMBDA c : c.h = h)

HandlesShown(ents) ==
    /\ Len(ents) = Len(calls.AddEntity)
    /\ \A k \in 1..Len(calls.AddEntity) :
          EntityShows(ents[k], calls.entity[calls.AddEntity[k]],
                      LabelsThrough(calls.AddEntity[k]),
                      IconSet(calls.SetIconURL, calls.AddEntity[k]))

\* C27: the text ReturnOutput returns holds one Entity element per
\* AddEntity call, in call order, and the element of the k-th call shows
\* exactly the properties, labels and icon set through the handle that call
\* returned, whenever they were set, and nothing set through another handle.
C27_HandleIsStoredEntity ==
    last.op = "ReturnOutput" => HandlesShown(EntityNodesOf(ParseDocument(ret.text, 1)))

\* A property set through the first handle after a second AddEntity.
C27_Witness ==
    /\ last.op = "ReturnOutput"
    /\ Len(calls.AddEntity) = 2
    /\ calls.entity[calls.AddEntity[2]].at = 2
    /\ Len(calls.entity[calls.AddEntity[1]].props) = 1
    /\ calls.entity[calls.AddEntity[2]].props = <<>>
    /\ calls.entity[calls.AddEntity[1]].props[1].value # calls.entity[calls.AddEntity[1]].value

(***************************************************************************)
(* C28                                                                     *)
(***************************************************************************)
\* n: a UIMessage element; c: the call that added it.
MessageWritten(n, c) ==
    /\ n.attrs = <<[name |-> "MessageType", value |-> c.messageType]>>
    /\ n.text = c.message

\* msgs: the UIMessage elements of a rendering; added: the AddUIMessage
\* calls of the handler.  The last element is "complete", and the messages
\* the handler added, unless it cleared them, stand before it in call order.
CompleteIsLast(msgs, added, cleared) ==
    /\ msgs # <<>>
    /\ MessageWritten(msgs[Len(msgs)], [message |-> <<"complete">>, messageType |-> <<"Inform">>])
    /\ ~cleared =>
          /\ Len(msgs) >= Len(added) + 1
          /\ \A i \in 1..Len(added) :
                MessageWritten(msgs[Len(msgs) - 1 - Len(added) + i], added[i])

HandlerMessages == SelectSeq(calls.AddUIMessage, LAMBDA c : c.at # 0)

\* C28: on a POST with a one-entity request the user's handler is invoked
\* once and only by the closure (the count of its runs goes from 0 to 1 and
\* never further); the closure then appends the Inform message "complete",
\* which is the last UIMessage of the rendering, behind every message the
\* handler added, and writes that rendering; nothing runs once the
\* response is written.
C28_HandlerOnceThenCompleteThenWrite ==
    /\ [](last.op = "HandlerReturn" =>
            /\ pc = "responded"
            /\ http.handlerRuns = 1
            /\ tr.RequestMessage # Nil
            /\ Len(tr.RequestMessage[1].Entities) = 1
            /\ \A text \in {ret.text, http.body} \ {<<>>} :
                  \E msgs \in {UIMessagesOf(ParseDocument(text, 1))} :
                      CompleteIsLast(msgs, HandlerMessages, calls.ThrowExceptions))
    /\ [][http'.handlerRuns # http.handlerRuns =>
             http.handlerRuns = 0 /\ http'.handlerRuns = 1 /\ last'.op = "Serve"]_vars
    /\ [][last'.op = "HandlerReturn" /\ last.op # "HandlerReturn" =>
             pc = "handler" /\ http.handlerRuns = 1 /\ http.body = <<>>]_vars
    /\ [][pc = "responded" => pc' = "responded" /\ tr' = tr /\ http' = http]_vars

\* The handler added a message of its own and the response was written.
C28_Witness ==
    /\ last.op = "HandlerReturn"
    /\ HandlerMessages # <<>>
    /\ ~calls.ThrowExceptions
    /\ http.body # <<>>

(***************************************************************************)
(* C29                                                                     *)
(***************************************************************************)
EntitiesIn(t) == IF t.ResponseMessage = Nil THEN <<>> ELSE t.ResponseMessage[1].Entities
UIMessagesIn(t) == IF t.ResponseMessage = Nil THEN <<>> ELSE t.ResponseMessage[1].UIMessages
ExceptionsIn(t) == IF t.ExceptionMessage = Nil THEN <<>> ELSE t.ExceptionMessage[1].Exceptions

\* after is before with one more item at the end.
OneAppended(before, after) ==
    Len(after) = Len(before) + 1 /\ SubSeq(after, 1, Len(before)) = before

\* The entities there were are as they were.
EntitiesKept == Len(heap') >= Len(heap) /\ SubSeq(heap', 1, Len(heap)) = heap

AddEntityFrame ==
    /\ tr'.ExceptionMessage = tr.ExceptionMessage
    /\ tr'.RequestMessage = tr.RequestMessage
    /\ tr'.ResponseMessage # Nil
    /\ OneAppended(EntitiesIn(tr), EntitiesIn(tr'))
    /\ UIMessagesIn(tr') = UIMessagesIn(tr)
    /\ EntitiesKept

AddUIMessageFrame ==
    /\ tr'.ExceptionMessage = tr.ExceptionMessage
    /\ tr'.RequestMessage = tr.RequestMessage
    /\ tr'.ResponseMessage # Nil
    /\ OneAppended(UIMessagesIn(tr), UIMessagesIn(tr'))
    /\ EntitiesIn(tr') = EntitiesIn(tr)
    /\ heap' = heap

AddExceptionFrame ==
    /\ tr'.ResponseMessage = tr.ResponseMessage
    /\ tr'.RequestMessage = tr.RequestMessage
    /\ tr'.ExceptionMessage # Nil
    /\ OneAppended(ExceptionsIn(tr), ExceptionsIn(tr'))
    /\ heap' = heap

ReturnOutputFrame ==
    /\ tr' = tr
    /\ heap' = heap
    /\ last.op = "ReturnOutput" => ret' = ret

ThrowExceptionsFrame ==
    /\ tr'.ExceptionMessage = tr.ExceptionMessage
    /\ tr'.RequestMessage = tr.RequestMessage
    /\ tr'.ResponseMessage = Nil
    /\ heap' = heap

\* C29: a call of AddEntity or AddUIMessage changes only the response
\* payload, by one item appended to its list; a call of AddException only
\* the exception payload, by one exception appended; a call of ReturnOutput
\* changes nothing, and called twice in a row it returns the same text; a
\* call of ThrowExceptions only clears the response payload; none of them
\* changes the request payload.
C29_HelpersChangeOnlyTheirPayload ==
    /\ [][last'.op = "AddEntity" /\ calls'.n = calls.n + 1 => AddEntityFrame]_vars
    /\ [][last'.op = "AddUIMessage" /\ calls'.n = calls.n + 1 => AddUIMessageFrame]_vars
    /\ [][last'.op = "AddException" /\ calls'.n = calls.n + 1 => AddExceptionFrame]_vars
    /\ [][last'.op = "ReturnOutput" => ReturnOutputFrame]_vars
    /\ [][last'.op = "ThrowExceptions" => ThrowExceptionsFrame]_vars

\* AddEntity called with all three payloads in place and an earlier entity.
C29_Witness ==
    /\ last.op = "AddEntity"
    /\ tr.RequestMessage # Nil
    /\ tr.ExceptionMessage # Nil
    /\ Len(EntitiesIn(tr)) >= 2

(***************************************************************************)
(* C30                                                                     *)
(***************************************************************************)
\* C30: GetThicknessInterval(val, min, max) is an integer from 1 to 5 for
\* all unsigned val, min and max, with min > max (the difference wraps) and
\* min = max (min taken as 0) among them, and for the same min and max no
\* smaller val gets a greater result.
C30_ThicknessInRangeAndMonotone ==
    util.op = "GetThicknessInterval" =>
        /\ util.out[1] \in 1..5
        /\ \A v \in 0..util.in[1] :
              GetThicknessInterval(v, util.in[2], util.in[3]) <= util.out[1]

\* min above max, and a result strictly between the ends.
C30_Witness ==
    /\ util.op = "GetThicknessInterval"
    /\ util.in[2] > util.in[3]
    /\ util.out = <<3>>

=============================================================================
